---- MODULE Spec2Model ----
(***************************************************************************)
(* Hybrid scoring and decision engine of the recruiter spam detection      *)
(* system: the scoring workflow (scoringWorkflow), the rule engine         *)
(* (ruleBasedScoring), the semantic adapter (llmScoring) and the external  *)
(* verification aggregator (externalVerification).                         *)
(*                                                                         *)
(* Arithmetic.  The code computes in IEEE doubles.  The model computes     *)
(* exactly, on integers:                                                   *)
(*   - weights are held in hundredths (0.3 is 30);                         *)
(*   - raw scores are held in twelfths of a point (Unit = 12), so that the *)
(*     mean of 1..4 integer channel scores is an integer number of units;  *)
(*   - Math.round rounds half up; where the exact value of a sum of        *)
(*     products is a half-integer, the double the code computes may lie    *)
(*     just below the half (0.3*1 + 0.4*1 + 0.3*36 evaluates to            *)
(*     11.499999999999998), and Math.round then rounds down.  The variable *)
(*     fpBelowTie says which of the two the evaluation produces.           *)
(***************************************************************************)
EXTENDS Integers, Sequences, FiniteSets, TLC

VARIABLES
    pc,                 \* which step of the operation under study has run
    env,                \* process.env as read by the constructors
    fpBelowTie,         \* double rounding at an exact half lands below it
    recruiter,          \* what Recruiter.findByPk finds for the subject
    net,                \* what the network does for the verification providers
    gemini,             \* what the semantic provider does on this call
    ruleBasedResults,   \* settled promise of the rule engine
    externalResults,    \* settled promise of the external verification
    llmResults,         \* value returned by llmScoring.scoreRecruiter
    scores,             \* the three PartialResults handed to calculateFinalScore
    finalResults,       \* value returned by calculateFinalScore
    decision,           \* value returned by makeDecision
    db,                 \* VerificationResult table and the subject's row
    outcome,            \* how scoreRecruiter of the workflow ended
    batch,              \* locals of batchScoreRecruiters and its promises
    invocations         \* concurrent invocations of scoreRecruiter for one subject

vars == <<pc, env, fpBelowTie, recruiter, net, gemini, ruleBasedResults,
          externalResults, llmResults, scores, finalResults, decision, db,
          outcome, batch, invocations>>

\* ------------------------------------------------------------------------
\* Bounds of the model
\* ------------------------------------------------------------------------
ScoreStep == 25         \* sampled scores include the multiples of ScoreStep
MaxThresholdDelta == 1  \* SPAM_THRESHOLD ranges over 70 +/- MaxThresholdDelta
MaxKeywords == 2        \* suspicious keywords contained in one attribute
MaxBatch == 3           \* length of the id list handed to batchScoreRecruiters
MaxConcurrency == 3     \* the concurrency option of batchScoreRecruiters
MaxCombinations == 2    \* combinations computed from the same PartialResults
MaxInvocations == 2     \* concurrent invocations of scoreRecruiter for one subject

\* ------------------------------------------------------------------------
\* Values
\* ------------------------------------------------------------------------
Unit == 3 * 4                        \* model units per score point
WeightScale == 10 * 10               \* model units per 1.0 of weight
Channels == {"email", "phone", "company", "domain"}

Min(a, b) == IF a < b THEN a ELSE b
Max(a, b) == IF a > b THEN a ELSE b

\* x || d on a number x: 0 is falsy.  (The fields this is applied to are
\* always set by their producers; an unset or unparsable environment
\* variable is NaN after parseFloat/parseInt and is held as 0.)
OrDefault(x, d) == IF x = 0 THEN d ELSE x

\* obj.p is set (objects are records; an absent property is not in DOMAIN)
Has(obj, p) == p \in DOMAIN obj

\* ------------------------------------------------------------------------
\* ScoringWorkflowService constructor
\* ------------------------------------------------------------------------
\* this.weights, in hundredths; an unset, unparsable or zero variable
\* falls back to the default
weights(e) ==
    [ruleBased |-> OrDefault(e.RULE_BASED_WEIGHT, 30),
     llm       |-> OrDefault(e.LLM_WEIGHT, 40),
     external  |-> OrDefault(e.EXTERNAL_API_WEIGHT, 30)]

spamThreshold(e) == OrDefault(e.SPAM_THRESHOLD, 70)

\* Math.round of the non-negative rational num/den
Round(num, den) ==
    LET q == num \div den
        r == num % den
    IN  IF 2 * r > den THEN q + 1
        ELSE IF 2 * r = den THEN (IF fpBelowTie THEN q ELSE q + 1)
        ELSE q

\* ------------------------------------------------------------------------
\* scoringWorkflow: the combination math
\* ------------------------------------------------------------------------
\* externalData.<ch> && typeof externalData.<ch>.score === 'number'
HasScore(externalData, ch) ==
    /\ Has(externalData, ch)
    /\ Has(externalData[ch], "score")

\* calculateExternalScore that leaves out the channels carrying an error
calculateExternalScore_SkipErrored(externalData) ==
    LET have == {ch \in Channels : HasScore(externalData, ch)
                                   /\ ~Has(externalData[ch], "error")}
        val(ch) == IF ch \in have THEN externalData[ch].score ELSE 0
        sum == val("email") + val("phone") + val("company") + val("domain")
    IN  IF Cardinality(have) > 0
        THEN (sum * Unit) \div Cardinality(have)
        ELSE 50 * Unit

\* average of the available channel scores, in Units; 50 if none
\* (externalData is always an object: verifyAll's result or the neutral
\* result of handlePromiseResult)
calculateExternalScore(externalData) ==
    LET have == {ch \in Channels : HasScore(externalData, ch)}
        val(ch) == IF ch \in have THEN externalData[ch].score ELSE 0
        sum == val("email") + val("phone") + val("company") + val("domain")
    IN  IF Cardinality(have) > 0
        THEN (sum * Unit) \div Cardinality(have)
        ELSE 50 * Unit

\* standardDeviation > t, for three scores given in Units: with S the sum,
\* variance = SUM (3*x - S)^2 / (3 * (3*Unit)^2)
StdDevAbove(x1, x2, x3, t) ==
    LET S == x1 + x2 + x3
        sq(x) == (3 * x - S) * (3 * x - S)
    IN  sq(x1) + sq(x2) + sq(x3) > t * t * 3 * (3 * Unit) * (3 * Unit)

\* calculateConfidence without the inconsistency penalty
calculateConfidence_NoPenalty(ruleScore, aiScore, externalScore, aiConfidence) ==
    LET allHigh == /\ ruleScore > 70 * Unit
                   /\ aiScore > 70 * Unit
                   /\ externalScore > 70 * Unit
        allLow  == /\ ruleScore < 40 * Unit
                   /\ aiScore < 40 * Unit
                   /\ externalScore < 40 * Unit
        confidence == IF allHigh \/ allLow THEN aiConfidence + 10 ELSE aiConfidence
    IN  Max(0, Min(100, confidence))

\* calculateConfidence with the medium penalty on both branches
calculateConfidence_FlatPenalty(ruleScore, aiScore, externalScore, aiConfidence) ==
    LET penalised ==
            IF StdDevAbove(ruleScore, aiScore, externalScore, 10)
            THEN aiConfidence - 8
            ELSE aiConfidence
        allHigh == /\ ruleScore > 70 * Unit
                   /\ aiScore > 70 * Unit
                   /\ externalScore > 70 * Unit
        allLow  == /\ ruleScore < 40 * Unit
                   /\ aiScore < 40 * Unit
                   /\ externalScore < 40 * Unit
        confidence == IF allHigh \/ allLow THEN penalised + 10 ELSE penalised
    IN  Max(0, Min(100, confidence))

\* scores in Units, aiConfidence in points
calculateConfidence(ruleScore, aiScore, externalScore, aiConfidence) ==
    LET penalised ==
            IF StdDevAbove(ruleScore, aiScore, externalScore, 20)
            THEN aiConfidence - 15
            ELSE IF StdDevAbove(ruleScore, aiScore, externalScore, 10)
            THEN aiConfidence - 8
            ELSE aiConfidence
        allHigh == /\ ruleScore > 70 * Unit
                   /\ aiScore > 70 * Unit
                   /\ externalScore > 70 * Unit
        allLow  == /\ ruleScore < 40 * Unit
                   /\ aiScore < 40 * Unit
                   /\ externalScore < 40 * Unit
        confidence == IF allHigh \/ allLow THEN penalised + 10 ELSE penalised
    IN  Max(0, Min(100, confidence))

\* s = [ruleBasedScore, llmScore, externalVerification]: the individual
\* scores calculateFinalScore extracts, in Units
rawScores(s) ==
    [ruleBased |-> OrDefault(s.ruleBasedScore.score, 50) * Unit,
     llm |-> OrDefault(s.llmScore.score, 50) * Unit,
     external |-> calculateExternalScore(s.externalVerification)]

\* the base confidence calculateFinalScore passes on
aiConfidence(s) == OrDefault(s.llmScore.confidence, 50)

\* the confidence calculateFinalScore computes for s
confidenceOf(s) ==
    LET raw == rawScores(s)
    IN  calculateConfidence(raw.ruleBased, raw.llm, raw.external, aiConfidence(s))

\* calculateFinalScore without the clamp to [0,100]
calculateFinalScore_NoClamp(s) ==
    LET raw == rawScores(s)
        w == weights(env)
        weightedScore == raw.ruleBased * w.ruleBased + raw.llm * w.llm
                         + raw.external * w.external
        breakdown == [ruleBasedWeighted |-> raw.ruleBased * w.ruleBased,
                      llmWeighted |-> raw.llm * w.llm,
                      externalWeighted |-> raw.external * w.external,
                      weights |-> w,
                      rawScores |-> raw]
    IN  [finalScore |-> Round(weightedScore, Unit * WeightScale),
         confidence |-> confidenceOf(s),
         breakdown |-> breakdown]

\* Weighted values are in 1/(Unit*WeightScale) of a point.
calculateFinalScore(s) ==
    LET raw == rawScores(s)
        w == weights(env)
        weightedScore == raw.ruleBased * w.ruleBased + raw.llm * w.llm
                         + raw.external * w.external
        breakdown == [ruleBasedWeighted |-> raw.ruleBased * w.ruleBased,
                      llmWeighted |-> raw.llm * w.llm,
                      externalWeighted |-> raw.external * w.external,
                      weights |-> w,
                      rawScores |-> raw]
    IN  [finalScore |-> Round(Max(0, Min(100 * Unit * WeightScale, weightedScore)),
                              Unit * WeightScale),
         confidence |-> confidenceOf(s),
         breakdown |-> breakdown]

\* makeDecision approving only above the threshold
makeDecision_StrictApprove(finalScore, confidence) ==
    IF finalScore > spamThreshold(env) /\ confidence >= 70
    THEN [decision |-> "approved",
          recommendation |-> "Recruiter appears legitimate and can be auto-approved"]
    ELSE IF finalScore < 40 /\ confidence >= 60
    THEN [decision |-> "flagged",
          recommendation |-> "High spam probability - recommend rejection"]
    ELSE IF confidence < 50
    THEN [decision |-> "pending_review",
          recommendation |-> "Low confidence in assessment - requires human review"]
    ELSE [decision |-> "pending_review",
          recommendation |-> "Score in uncertain range - manual review recommended"]

\* makeDecision flagging on the score alone
makeDecision_FlagAnyConfidence(finalScore, confidence) ==
    IF finalScore >= spamThreshold(env) /\ confidence >= 70
    THEN [decision |-> "approved",
          recommendation |-> "Recruiter appears legitimate and can be auto-approved"]
    ELSE IF finalScore < 40
    THEN [decision |-> "flagged",
          recommendation |-> "High spam probability - recommend rejection"]
    ELSE IF confidence < 50
    THEN [decision |-> "pending_review",
          recommendation |-> "Low confidence in assessment - requires human review"]
    ELSE [decision |-> "pending_review",
          recommendation |-> "Score in uncertain range - manual review recommended"]

makeDecision(finalScore, confidence) ==
    IF finalScore >= spamThreshold(env) /\ confidence >= 70
    THEN [decision |-> "approved",
          recommendation |-> "Recruiter appears legitimate and can be auto-approved"]
    ELSE IF finalScore < 40 /\ confidence >= 60
    THEN [decision |-> "flagged",
          recommendation |-> "High spam probability - recommend rejection"]
    ELSE IF confidence < 50
    THEN [decision |-> "pending_review",
          recommendation |-> "Low confidence in assessment - requires human review"]
    ELSE [decision |-> "pending_review",
          recommendation |-> "Score in uncertain range - manual review recommended"]

\* ------------------------------------------------------------------------
\* ruleBasedScoring
\* ------------------------------------------------------------------------
\* A subject attribute is null or a string.  A string is held by the
\* features the analyzers test:
\*   empty        the string is "" (falsy)
\*   short        trim().length < 2
\*   keywords     number of suspiciousKeywords of the attribute it contains
\*                (for role: of 'founder', 'owner', 'president', 'director';
\*                'CEO' and 'VP' are never contained in a lower-cased string)
\*   patterns     number of spamPatterns of the attribute it matches
\* and the attribute's own format features.
IsNull(v) == v.type = "null"
Falsy(v) == IsNull(v) \/ v.empty

Flag(type, severity) == [type |-> type, severity |-> severity]
Flags(n, type, severity) == [i \in 1 .. n |-> Flag(type, severity)]
FlagIf(cond, type, severity) == IF cond THEN <<Flag(type, severity)>> ELSE <<>>
Penalty(cond, amount) == IF cond THEN amount ELSE 0

Thrown(message) == [threw |-> TRUE, message |-> message]
Returned(value) == [threw |-> FALSE, value |-> value]

\* data.<attr>.toLowerCase() on a null attribute is a TypeError
checkKeywords(data) ==
    IF IsNull(data.companyName) \/ IsNull(data.role) \/ IsNull(data.industry)
    THEN Thrown("Cannot read properties of null (reading 'toLowerCase')")
    ELSE LET c == data.companyName.keywords
             r == data.role.keywords
             i == data.industry.keywords
         IN  Returned([score |-> Max(0, 85 - 15 * c - 5 * r - 20 * i),
                       flags |-> Flags(c, "suspicious_company_keyword", "high")
                                 \o Flags(r, "senior_role_flag", "medium")
                                 \o Flags(i, "high_risk_industry", "high")])

analyzeEmail(email) ==
    IF Falsy(email) \/ ~email.isEmail
    THEN [score |-> 30, flags |-> <<Flag("invalid_email", "high")>>]
    ELSE [score |-> Max(0, 80 - Penalty(email.freeProvider, 10)
                              - 25 * email.patterns
                              - Penalty(email.oddDomainLength, 5)),
          flags |-> FlagIf(email.freeProvider, "free_email_provider", "medium")
                    \o Flags(email.patterns, "spam_email_pattern", "high")
                    \o FlagIf(email.oddDomainLength, "suspicious_domain_length", "medium")]

analyzeWebsite(websiteUrl) ==
    IF Falsy(websiteUrl) \/ ~websiteUrl.isURLWithProtocol
    THEN [score |-> 45, flags |-> <<Flag("invalid_website_url", "high")>>]
    ELSE IF ~websiteUrl.parses
    THEN [score |-> 65, flags |-> <<Flag("website_analysis_error", "medium")>>]
    ELSE [score |-> Max(0, 75 - 25 * websiteUrl.patterns
                              + (IF websiteUrl.https THEN 5 ELSE 0 - 5)
                              - Penalty(websiteUrl.shortDomain, 10)
                              - Penalty(websiteUrl.manySubdomains, 5)),
          flags |-> Flags(websiteUrl.patterns, "spam_website_pattern", "high")
                    \o FlagIf(~websiteUrl.https, "no_https", "low")
                    \o FlagIf(websiteUrl.shortDomain, "domain_too_short", "medium")
                    \o FlagIf(websiteUrl.manySubdomains, "too_many_subdomains", "medium")]

analyzePhone(phoneNumber) ==
    IF Falsy(phoneNumber)
    THEN [score |-> 65, flags |-> <<Flag("missing_phone", "medium")>>]
    ELSE [score |-> Max(0, 80 - Penalty(phoneNumber.badLength, 10)
                              - 20 * phoneNumber.patterns
                              - Penalty(phoneNumber.repeatedDigits, 15)),
          flags |-> FlagIf(phoneNumber.badLength, "invalid_phone_length", "medium")
                    \o Flags(phoneNumber.patterns, "spam_phone_pattern", "high")
                    \o FlagIf(phoneNumber.repeatedDigits, "repeated_digits", "medium")]

analyzeCompanyName(companyName) ==
    IF Falsy(companyName) \/ companyName.short
    THEN [score |-> 55, flags |-> <<Flag("invalid_company_name", "high")>>]
    ELSE [score |-> Max(0, 85 - Penalty(companyName.endsWithDigits, 10)
                              - Penalty(companyName.generic, 5)
                              - Penalty(companyName.allCaps, 3)),
          flags |-> FlagIf(companyName.endsWithDigits,
                           "company_name_with_many_numbers", "medium")
                    \o FlagIf(companyName.generic, "generic_company_name", "medium")
                    \o FlagIf(companyName.allCaps, "excessive_caps", "low")]

analyzeIndustry(industry) ==
    IF Falsy(industry) \/ industry.short
    THEN [score |-> 80, flags |-> <<Flag("missing_industry", "medium")>>]
    ELSE [score |-> Max(0, 90 - Penalty(industry.vague, 5)),
          flags |-> FlagIf(industry.vague, "vague_industry", "low")]

RECURSIVE FlagPenalty(_)
FlagPenalty(flags) ==
    IF flags = <<>> THEN 0
    ELSE (CASE Head(flags).severity = "high" -> 5
            [] Head(flags).severity = "medium" -> 2
            [] OTHER -> 1)
         + FlagPenalty(Tail(flags))

\* calculateFinalScore of the rule engine; component weights in hundredths
\* (every component is defined, so totalWeight is 1.0)
ruleBasedScoring_calculateFinalScore(details) ==
    LET weightedSum == details.keywordScore * 25 + details.emailDomainScore * 20
                       + details.websiteScore * 20 + details.phoneScore * 15
                       + details.companyNameScore * 15 + details.industryScore * 5
        flagPenalty == FlagPenalty(details.flags)
        finalScore == Max(0, Min(100 * WeightScale,
                                 weightedSum - flagPenalty * WeightScale))
    IN  Round(finalScore, WeightScale)

\* the settled promise of ruleBasedScoring.scoreRecruiter
ruleBasedScoring_scoreRecruiter(recruiterData) ==
    LET keywordResult == checkKeywords(recruiterData)
        emailResult == analyzeEmail(recruiterData.businessEmail)
        websiteResult == analyzeWebsite(recruiterData.websiteUrl)
        phoneResult == analyzePhone(recruiterData.phoneNumber)
        companyResult == analyzeCompanyName(recruiterData.companyName)
        industryResult == analyzeIndustry(recruiterData.industry)
        details == [keywordScore |-> keywordResult.value.score,
                    emailDomainScore |-> emailResult.score,
                    websiteScore |-> websiteResult.score,
                    phoneScore |-> phoneResult.score,
                    companyNameScore |-> companyResult.score,
                    industryScore |-> industryResult.score,
                    flags |-> keywordResult.value.flags \o emailResult.flags
                              \o websiteResult.flags \o phoneResult.flags
                              \o companyResult.flags \o industryResult.flags]
    IN  IF keywordResult.threw
        THEN [status |-> "rejected", reason |-> [message |-> keywordResult.message]]
        ELSE [status |-> "fulfilled",
              value |-> [score |-> ruleBasedScoring_calculateFinalScore(details),
                         maxScore |-> 100,
                         details |-> details]]

\* ------------------------------------------------------------------------
\* llmScoring
\* ------------------------------------------------------------------------
\* A JSON value of the parsed payload is held as [type |-> typeof ...]; a
\* number carries its value in tenths (val10), a string its text.
Undefined == [type |-> "undefined"]
Num10(v) == [type |-> "number", val10 |-> v]
Str(s) == [type |-> "string", text |-> s]

\* Math.round of a number given in tenths
RoundTenths(v) == (v + 5) \div 10

\* typeof x === 'number' && x >= 0 && x <= 100
ValidPercent(x) == x.type = "number" /\ x.val10 >= 0 /\ x.val10 <= 100 * 10

\* normalizeResponse with 0 as the default confidence
normalizeResponse_ZeroConfidence(response) ==
    [score |-> IF ValidPercent(response.score)
               THEN RoundTenths(response.score.val10) ELSE 50,
     confidence |-> IF ValidPercent(response.confidence)
                    THEN RoundTenths(response.confidence.val10) ELSE 0,
     reasoning |-> IF response.reasoning.type = "string" /\ response.reasoning.text # ""
                   THEN response.reasoning.text ELSE "No reasoning provided",
     redFlags |-> <<>>,
     positiveIndicators |-> <<>>,
     recommendation |->
         IF /\ response.recommendation.type = "string"
            /\ response.recommendation.text \in {"approve", "flag", "manual_review"}
         THEN response.recommendation.text ELSE "manual_review"]

\* response: the parsed payload, a record of JSON values (a property the
\* payload lacks is Undefined; text is held trimmed; redFlags and
\* positiveIndicators are not modelled and stay empty)
normalizeResponse(response) ==
    [score |-> IF ValidPercent(response.score)
               THEN RoundTenths(response.score.val10) ELSE 50,
     confidence |-> IF ValidPercent(response.confidence)
                    THEN RoundTenths(response.confidence.val10) ELSE 50,
     reasoning |-> IF response.reasoning.type = "string" /\ response.reasoning.text # ""
                   THEN response.reasoning.text ELSE "No reasoning provided",
     redFlags |-> <<>>,
     positiveIndicators |-> <<>>,
     recommendation |->
         IF /\ response.recommendation.type = "string"
            /\ response.recommendation.text \in {"approve", "flag", "manual_review"}
         THEN response.recommendation.text ELSE "manual_review"]

NoTokenUsage == [promptTokens |-> 0, completionTokens |-> 0, totalTokens |-> 0]

\* getFallbackScore that reports a high confidence
getFallbackScore_HighConfidence(errorMessage) ==
    [score |-> 50,
     confidence |-> 80,
     reasoning |-> errorMessage,
     redFlags |-> <<"LLM_ANALYSIS_FAILED">>,
     positiveIndicators |-> <<>>,
     recommendation |-> "manual_review",
     model |-> "gemini-pro",
     tokenUsage |-> NoTokenUsage,
     error |-> TRUE]

getFallbackScore(errorMessage) ==
    [score |-> 50,
     confidence |-> 0,
     reasoning |-> errorMessage,
     redFlags |-> <<"LLM_ANALYSIS_FAILED">>,
     positiveIndicators |-> <<>>,
     recommendation |-> "manual_review",
     model |-> "gemini-pro",
     tokenUsage |-> NoTokenUsage,
     error |-> TRUE]

\* buildPrompt reads ruleBasedResults.details.flags.length when it is given
\* rule-based results; TRUE when that read is a TypeError
NoRuleContext == [none |-> TRUE]          \* ruleBasedResults = null

buildPromptThrows(ruleBasedContext) ==
    /\ ruleBasedContext # NoRuleContext
    /\ ~Has(ruleBasedContext.details, "flags")

\* provider: what the provider does on this call,
\*   [kind |-> "throws"]       generateContent rejects
\*   [kind |-> "no_text"]      no response object, or response.text() throws
\*   [kind |-> "not_json"]     the text does not parse as JSON
\*   [kind |-> "json_null"]    the text is the JSON value null
\*   [kind |-> "json", payload |-> ...]  the text parses to payload
\* (processingTime and the provider's usageMetadata are not modelled; the
\* fallback's reasoning is held as the error message it embeds)
llmScoring_scoreRecruiter(ruleBasedContext, provider) ==
    IF ~env.GEMINI_API_KEY
    THEN getFallbackScore("Gemini API key not configured")
    ELSE IF buildPromptThrows(ruleBasedContext)
    THEN getFallbackScore("Cannot read properties of undefined (reading 'length')")
    ELSE CASE provider.kind = "throws" -> getFallbackScore("fetch failed")
           [] provider.kind = "no_text" ->
                  getFallbackScore("Cannot read properties of undefined (reading 'text')")
           [] provider.kind = "not_json" ->
                  getFallbackScore("Invalid JSON response from Gemini")
           [] provider.kind = "json_null" ->
                  getFallbackScore("Cannot read properties of null (reading 'score')")
           [] provider.kind = "json" ->
                  LET n == normalizeResponse(provider.payload)
                  IN  [score |-> n.score,
                       confidence |-> n.confidence,
                       reasoning |-> n.reasoning,
                       redFlags |-> n.redFlags,
                       positiveIndicators |-> n.positiveIndicators,
                       recommendation |-> n.recommendation,
                       model |-> "gemini-pro",
                       tokenUsage |-> NoTokenUsage]

\* ------------------------------------------------------------------------
\* externalVerification
\* ------------------------------------------------------------------------
\* network: what the network does during one verifyAll,
\*   dnsEmail, dnsSite   the domain resolves (checkDNS never throws)
\*   hunter, numverify, clearbit, scrape
\*                       [kind |-> "fail"] (error, timeout, bad payload) or
\*                       [kind |-> "ok", ...] with the fields the code reads
\* env.<X>_API_KEY says whether isValidApiKey accepts the configured key.
\* verifyEmail without the cap Math.min(100, score)
verifyEmail_NoCap(email, network) ==
    IF Falsy(email) \/ ~email.isEmail
    THEN [isValid |-> FALSE, score |-> 0, error |-> "Invalid email format",
          source |-> "validation"]
    ELSE IF ~env.HUNTER_API_KEY
    THEN [isValid |-> network.dnsEmail, score |-> IF network.dnsEmail THEN 60 ELSE 20,
          provider |-> "dns-only", source |-> "dns"]
    ELSE IF network.hunter.kind = "fail"
    THEN [isValid |-> network.dnsEmail, score |-> IF network.dnsEmail THEN 40 ELSE 10,
          provider |-> "dns-fallback", error |-> "hunter.io request failed",
          source |-> "dns", apiCalled |-> FALSE]
    ELSE LET h == network.hunter
             base == CASE h.result = "deliverable" -> 90
                       [] h.result = "undeliverable" -> 10
                       [] h.result = "risky" -> 30
                       [] OTHER -> 50
             score == base + Penalty(h.mx_records, 5) + Penalty(h.smtp_server, 5)
                      + Penalty(h.smtp_check, 10)
         IN  [isValid |-> h.result = "deliverable", score |-> score,
              provider |-> "hunter.io", apiCalled |-> TRUE, source |-> "hunter"]

verifyEmail(email, network) ==
    IF Falsy(email) \/ ~email.isEmail
    THEN [isValid |-> FALSE, score |-> 0, error |-> "Invalid email format",
          source |-> "validation"]
    ELSE IF ~env.HUNTER_API_KEY
    THEN [isValid |-> network.dnsEmail, score |-> IF network.dnsEmail THEN 60 ELSE 20,
          provider |-> "dns-only", source |-> "dns"]
    ELSE IF network.hunter.kind = "fail"
    THEN [isValid |-> network.dnsEmail, score |-> IF network.dnsEmail THEN 40 ELSE 10,
          provider |-> "dns-fallback", error |-> "hunter.io request failed",
          source |-> "dns", apiCalled |-> FALSE]
    ELSE LET h == network.hunter
             base == CASE h.result = "deliverable" -> 90
                       [] h.result = "undeliverable" -> 10
                       [] h.result = "risky" -> 30
                       [] OTHER -> 50
             score == base + Penalty(h.mx_records, 5) + Penalty(h.smtp_server, 5)
                      + Penalty(h.smtp_check, 10)
         IN  [isValid |-> h.result = "deliverable", score |-> Min(100, score),
              provider |-> "hunter.io", apiCalled |-> TRUE, source |-> "hunter"]

verifyPhone(phoneNumber, network) ==
    IF Falsy(phoneNumber)
    THEN [isValid |-> FALSE, score |-> 0, error |-> "Phone number not provided",
          source |-> "validation"]
    ELSE IF ~env.NUMVERIFY_API_KEY
    THEN [isValid |-> phoneNumber.basicValid,
          score |-> IF phoneNumber.basicValid THEN 50 ELSE 20,
          provider |-> "basic-validation", source |-> "validation"]
    ELSE IF network.numverify.kind = "fail"
    THEN [isValid |-> phoneNumber.basicValid,
          score |-> IF phoneNumber.basicValid THEN 30 ELSE 10,
          provider |-> "basic-fallback", error |-> "Numverify API error",
          source |-> "validation", apiCalled |-> FALSE]
    ELSE LET n == network.numverify
             score == (IF n.valid THEN 80 ELSE 20) + Penalty(n.mobile, 10)
                      + Penalty(n.carrier, 5)
         IN  [isValid |-> n.valid, score |-> Min(100, score),
              provider |-> "numverify", apiCalled |-> TRUE, source |-> "numverify"]

\* clearbitData and webData are [kind |-> "none"] (null) or the provider's
\* [kind |-> "ok", ...]
combineCompanyData(companyName, websiteUrl, clearbitData, webData) ==
    LET hasClearbit == clearbitData.kind = "ok"
        hasWeb == webData.kind = "ok"
        afterClearbit ==
            IF hasClearbit
            THEN 85 + Penalty(clearbitData.hasName /\ clearbitData.nameMatches, 10)
            ELSE 40
        base == IF hasWeb /\ ~hasClearbit THEN 60 ELSE afterClearbit
        score == IF hasWeb
                 THEN base + Penalty(webData.hasContactPage, 5)
                      + Penalty(webData.hasAboutPage, 5)
                      + Penalty(webData.hasPrivacyPolicy, 3)
                      + Penalty(websiteUrl.https, 5)
                      + Penalty(webData.linkedin, 8)
                      + Penalty(webData.twitterOrFacebook, 3)
                      + Penalty(webData.bigContent, 5)
                 ELSE base
    IN  IF hasClearbit /\ clearbitData.hasName /\ IsNull(companyName)
        THEN Thrown("Cannot read properties of null (reading 'toLowerCase')")
        ELSE Returned([isValid |-> hasClearbit \/ hasWeb,
                       score |-> Min(100, score),
                       provider |-> IF hasClearbit THEN "clearbit+scraping" ELSE "scraping",
                       apiCalled |-> hasClearbit,
                       source |-> IF hasClearbit THEN "clearbit" ELSE "scraping"])

NoData == [kind |-> "none"]

verifyCompany(companyName, websiteUrl, network) ==
    LET clearbitData ==
            IF env.CLEARBIT_API_KEY /\ ~Falsy(websiteUrl)
               /\ websiteUrl.parses /\ network.clearbit.kind = "ok"
            THEN network.clearbit ELSE NoData
        webData ==
            IF ~Falsy(websiteUrl) /\ network.scrape.kind = "ok"
            THEN network.scrape ELSE NoData
        combined == combineCompanyData(companyName, websiteUrl, clearbitData, webData)
    IN  IF combined.threw
        THEN [isValid |-> FALSE, score |-> 30, error |-> combined.message,
              source |-> "verification", apiCalled |-> FALSE]
        ELSE combined.value

verifyDomain(websiteUrl, network) ==
    IF Falsy(websiteUrl) \/ ~websiteUrl.isURL
    THEN [isValid |-> FALSE, score |-> 0, error |-> "Invalid URL",
          source |-> "validation"]
    ELSE IF ~websiteUrl.parses
    THEN [isValid |-> FALSE, score |-> 10, error |-> "Invalid URL",
          source |-> "verification"]
    ELSE LET score == (IF network.dnsSite THEN 70 ELSE 20)
                      + Penalty(websiteUrl.https, 10)
                      + Penalty(websiteUrl.simpleDomain, 5)
         IN  [isValid |-> network.dnsSite, isSSL |-> websiteUrl.https,
              score |-> Min(100, score), source |-> "dns"]

\* the entry verifyAll records for a channel result that carries an error
ChannelError(result) ==
    IF Has(result, "error")
    THEN <<[source |-> result.source, error |-> result.error]>>
    ELSE <<>>

ApiCalled(result) == Has(result, "apiCalled") /\ result.apiCalled

\* verifyAll: no channel promise rejects on a subject whose attributes are
\* strings or null, so each handlePromiseResult returns the channel's value
\* (processingTime and timestamps are not modelled)
verifyAll(recruiterData, network) ==
    LET email == verifyEmail(recruiterData.businessEmail, network)
        phone == verifyPhone(recruiterData.phoneNumber, network)
        company == verifyCompany(recruiterData.companyName, recruiterData.websiteUrl, network)
        domain == verifyDomain(recruiterData.websiteUrl, network)
    IN  [email |-> email, phone |-> phone, company |-> company, domain |-> domain,
         apiCallsCount |-> Cardinality({ch \in Channels :
                               ApiCalled([email |-> email, phone |-> phone,
                                          company |-> company, domain |-> domain][ch])}),
         errors |-> ChannelError(email) \o ChannelError(phone)
                    \o ChannelError(company) \o ChannelError(domain)]

\* ------------------------------------------------------------------------
\* scoringWorkflow: settling, error collection and persistence
\* ------------------------------------------------------------------------
Pending == [status |-> "pending"]
Settled(p) == p.status # "pending"

\* the neutral result the workflow substitutes for a rejected source
NeutralResult(message, source) ==
    [score |-> 50, error |-> message, source |-> source,
     details |-> [error |-> TRUE]]

handlePromiseResult(result, source) ==
    IF result.status = "fulfilled"
    THEN result.value
    ELSE NeutralResult(result.reason.message, source)

\* the entry pushed for a result whose error property is set
OwnError(result, source) ==
    IF Has(result, "error")
    THEN <<[source |-> source, error |-> result.error]>>
    ELSE <<>>

NestedErrors(result) == IF Has(result, "errors") THEN result.errors ELSE <<>>

\* collectAllErrors that copies only the nested error lists
collectAllErrors_NestedOnly(processedRuleResults, llm, processedExternalResults) ==
    NestedErrors(processedRuleResults) \o NestedErrors(llm)
    \o NestedErrors(processedExternalResults)

\* collectAllErrors([processedRuleResults, llmResults, processedExternalResults])
\* (timestamps are not modelled)
collectAllErrors(processedRuleResults, llm, processedExternalResults) ==
    OwnError(processedRuleResults, "rule-based") \o NestedErrors(processedRuleResults)
    \o OwnError(llm, "llm") \o NestedErrors(llm)
    \o OwnError(processedExternalResults, "external")
    \o NestedErrors(processedExternalResults)

RecruiterId == "r1"

\* the verificationResult object of scoreRecruiter (times are not modelled)
VerificationResultOf(processedRuleResults, llm, processedExternalResults, fin, dec) ==
    [recruiterId |-> RecruiterId,
     finalScore |-> fin.finalScore,
     decision |-> dec.decision,
     confidence |-> fin.confidence,
     ruleBasedScore |-> [score |-> processedRuleResults.score,
                         details |-> processedRuleResults.details],
     llmScore |-> [score |-> llm.score, model |-> llm.model,
                   reasoning |-> llm.reasoning, confidence |-> llm.confidence,
                   tokenUsage |-> llm.tokenUsage],
     externalVerification |-> processedExternalResults,
     processingMetrics |->
         [apiCallsCount |-> IF Has(processedExternalResults, "apiCallsCount")
                            THEN processedExternalResults.apiCallsCount ELSE 0,
          errors |-> collectAllErrors(processedRuleResults, llm,
                                      processedExternalResults)]]

\* the record saveErrorResult creates
ErrorResultOf(message) ==
    [recruiterId |-> RecruiterId,
     finalScore |-> 50,
     decision |-> "pending_review",
     confidence |-> 0,
     ruleBasedScore |-> [score |-> 50, details |-> [error |-> TRUE]],
     llmScore |-> [score |-> 50, error |-> message],
     externalVerification |-> [error |-> message],
     processingMetrics |-> [errors |-> <<[source |-> "workflow", error |-> message]>>]]

\* statusMap without the entry for flagged
statusMap_NoFlagged(d) ==
    CASE d = "approved" -> "approved"
      [] d = "pending_review" -> "pending"
      [] OTHER -> "pending"

statusMap(d) ==
    CASE d = "approved" -> "approved"
      [] d = "flagged" -> "flagged"
      [] d = "pending_review" -> "pending"
      [] OTHER -> "pending"

\* ------------------------------------------------------------------------
\* scoringWorkflow: batchScoreRecruiters
\* ------------------------------------------------------------------------
\* batch holds the arguments (recruiterIds, concurrency, continueOnError),
\* the ids findByPk resolves (existing), the loop index i, the results
\* array and, per position of recruiterIds,
\*   decides[p]   how this.scoreRecruiter(recruiterId) ended for position p
\*   promises[p]  the promise of the async callback of batch.map
NotStarted == [status |-> "not_started"]
NotDecided == [kind |-> "none"]

\* recruiterIds.slice(i, i + concurrency) one position too wide
batchSlice_TooWide(b) ==
    {p \in 1 .. Len(b.recruiterIds) : b.i < p /\ p <= b.i + b.concurrency + 1}

\* the positions of recruiterIds.slice(i, i + concurrency)
batchSlice(b) ==
    {p \in 1 .. Len(b.recruiterIds) : b.i < p /\ p <= b.i + b.concurrency}

\* the callback of batch.map that throws again whatever continueOnError is
batchCallback_AlwaysRethrow(recruiterId, decided, continueOnError) ==
    IF decided.kind = "returned"
    THEN [status |-> "fulfilled",
          value |-> [success |-> TRUE, recruiterId |-> recruiterId,
                     result |-> decided.value]]
    ELSE [status |-> "rejected", reason |-> [message |-> decided.message]]

\* the settled promise of the callback of batch.map, given how
\* scoreRecruiter ended
batchCallback(recruiterId, decided, continueOnError) ==
    IF decided.kind = "returned"
    THEN [status |-> "fulfilled",
          value |-> [success |-> TRUE, recruiterId |-> recruiterId,
                     result |-> decided.value]]
    ELSE IF continueOnError
    THEN [status |-> "fulfilled",
          value |-> [success |-> FALSE, recruiterId |-> recruiterId,
                     error |-> decided.message]]
    ELSE [status |-> "rejected", reason |-> [message |-> decided.message]]

\* batchResults.map(r => r.status === 'fulfilled' ? r.value : r.reason)
settledEntry(r) == IF r.status = "fulfilled" THEN r.value ELSE r.reason

RECURSIVE chunkEntries(_, _, _)
chunkEntries(b, from, to) ==
    IF from > to THEN <<>>
    ELSE <<settledEntry(b.promises[from])>> \o chunkEntries(b, from + 1, to)

\* r.success of a results entry (an Error object has no such property)
entrySuccess(r) == Has(r, "success") /\ r.success

batchSummary(results) ==
    LET successful == Cardinality({k \in DOMAIN results : entrySuccess(results[k])})
    IN  [total |-> Len(results),
         successful |-> successful,
         failed |-> Len(results) - successful,
         results |-> results]

\* ------------------------------------------------------------------------
\* VerificationResult: the breakdown recomputed from a stored record
\* ------------------------------------------------------------------------
\* this.externalVerification.<ch>?.score || 0
storedChannelScore(record, ch) ==
    IF HasScore(record.externalVerification, ch)
    THEN record.externalVerification[ch].score
    ELSE 0

\* mean of the channel scores above 0, in Units; 0 if there is none
\* (externalVerification is always stored as an object)
getExternalAPIWeightedScore(record) ==
    LET positive == {ch \in Channels : storedChannelScore(record, ch) > 0}
        val(ch) == IF ch \in positive THEN storedChannelScore(record, ch) ELSE 0
        sum == val("email") + val("phone") + val("company") + val("domain")
    IN  IF Cardinality(positive) > 0
        THEN (sum * Unit) \div Cardinality(positive)
        ELSE 0

\* the weighted contributions, in 1/(Unit*WeightScale) of a point
getScoreBreakdown(record) ==
    LET w == weights(env)
    IN  [ruleBasedWeighted |-> record.ruleBasedScore.score * Unit * w.ruleBased,
         llmWeighted |-> record.llmScore.score * Unit * w.llm,
         externalWeighted |-> getExternalAPIWeightedScore(record) * w.external,
         weights |-> [rule |-> w.ruleBased, llm |-> w.llm, external |-> w.external]]

\* ------------------------------------------------------------------------
\* Inputs
\* ------------------------------------------------------------------------
\* weights and threshold unset, every provider key configured
DefaultEnv ==
    [RULE_BASED_WEIGHT |-> 0, LLM_WEIGHT |-> 0, EXTERNAL_API_WEIGHT |-> 0,
     SPAM_THRESHOLD |-> 0,
     GEMINI_API_KEY |-> TRUE, HUNTER_API_KEY |-> TRUE,
     NUMVERIFY_API_KEY |-> TRUE, CLEARBIT_API_KEY |-> TRUE]

\* SPAM_THRESHOLD: unset, extreme, and around the default
ThresholdEnvs ==
    {[DefaultEnv EXCEPT !.SPAM_THRESHOLD = t] :
        t \in {0, 1, 100} \cup ((70 - MaxThresholdDelta) .. (70 + MaxThresholdDelta))}

\* weight triples, in hundredths: the defaults, triples summing to
\* 1.0 +/- 0.01, a negative weight, and triples that do not sum to 1.0
WeightTriples ==
    {<<0, 0, 0>>, <<31, 40, 30>>, <<30, 39, 30>>, <<33, 33, 33>>,
     <<50, 25, 25>>, <<-20, 80, 40>>, <<100, 0, 0>>, <<50, 50, 50>>}

WeightEnvs ==
    {[DefaultEnv EXCEPT !.RULE_BASED_WEIGHT = w[1], !.LLM_WEIGHT = w[2],
                        !.EXTERNAL_API_WEIGHT = w[3]] : w \in WeightTriples}

SampleScores ==
    {0, 20, 39, 71, 80} \cup {k * ScoreStep : k \in 0 .. (100 \div ScoreStep)}

ChannelScores(e, p, c, d) ==
    [email |-> [score |-> e], phone |-> [score |-> p],
     company |-> [score |-> c], domain |-> [score |-> d]]

\* external results: uniform channels, mixed channels (fractional means),
\* and the neutral result that carries no channel
ExternalInputs ==
    {ChannelScores(v, v, v, v) : v \in SampleScores}
    \cup {ChannelScores(90, 50, 63, 85), ChannelScores(0, 0, 0, 10),
         ChannelScores(100, 95, 100, 85)}
    \cup {NeutralResult("verification failed", "external")}

ScoreInputs(confidences) ==
    {[ruleBasedScore |-> [score |-> r],
      llmScore |-> [score |-> s, confidence |-> c],
      externalVerification |-> x] :
        r \in SampleScores, s \in SampleScores, c \in confidences,
        x \in ExternalInputs}

NoScores == ScoreInputs({50})
NoResults == [finalScore |-> 0, confidence |-> 0]
NoDecision == [decision |-> "none", recommendation |-> "none"]

\* subject attributes
Null == [type |-> "null"]
EmptyString == [type |-> "string", empty |-> TRUE, short |-> TRUE, keywords |-> 0]

CompanyName(keywords, endsWithDigits, generic, allCaps) ==
    [type |-> "string", empty |-> FALSE, short |-> FALSE, keywords |-> keywords,
     endsWithDigits |-> endsWithDigits, generic |-> generic, allCaps |-> allCaps]

Role(keywords) == [type |-> "string", empty |-> FALSE, keywords |-> keywords]

Industry(keywords, vague) ==
    [type |-> "string", empty |-> FALSE, short |-> FALSE, keywords |-> keywords,
     vague |-> vague]

Email(isEmail, freeProvider, patterns, oddDomainLength) ==
    [type |-> "string", empty |-> FALSE, isEmail |-> isEmail,
     freeProvider |-> freeProvider, patterns |-> patterns,
     oddDomainLength |-> oddDomainLength]

\* isURL: validator.isURL(url); isURLWithProtocol: with require_protocol;
\* parses: new URL(url) does not throw; simpleDomain: at most two labels
Website(isURL, isURLWithProtocol, parses, patterns, https, shortDomain,
        manySubdomains, simpleDomain) ==
    [type |-> "string", empty |-> FALSE, isURL |-> isURL,
     isURLWithProtocol |-> isURLWithProtocol, parses |-> parses,
     patterns |-> patterns, https |-> https, shortDomain |-> shortDomain,
     manySubdomains |-> manySubdomains, simpleDomain |-> simpleDomain]

\* basicValid: the cleaned number is 10 to 15 digits
Phone(badLength, patterns, repeatedDigits, basicValid) ==
    [type |-> "string", empty |-> FALSE, badLength |-> badLength,
     patterns |-> patterns, repeatedDigits |-> repeatedDigits,
     basicValid |-> basicValid]

CompanyNames ==
    {Null, EmptyString, CompanyName(0, FALSE, FALSE, FALSE),
     CompanyName(MaxKeywords, TRUE, TRUE, TRUE)}
    \cup {CompanyName(k, FALSE, FALSE, FALSE) : k \in 1 .. MaxKeywords}

Roles == {Null, Role(0), Role(1)}

Industries ==
    {Null, EmptyString, Industry(0, FALSE), Industry(0, TRUE)}
    \cup {Industry(k, FALSE) : k \in 1 .. MaxKeywords}

Emails ==
    {Null, Email(FALSE, FALSE, 0, FALSE), Email(TRUE, FALSE, 0, FALSE),
     Email(TRUE, TRUE, 1, FALSE), Email(TRUE, TRUE, 3, TRUE)}

CleanWebsite == Website(TRUE, TRUE, TRUE, 0, TRUE, FALSE, FALSE, TRUE)
BareWebsite == Website(TRUE, FALSE, FALSE, 0, FALSE, FALSE, FALSE, TRUE)

Websites ==
    {Null, Website(FALSE, FALSE, FALSE, 0, FALSE, FALSE, FALSE, FALSE),
     BareWebsite, CleanWebsite,
     Website(TRUE, TRUE, TRUE, 1, FALSE, FALSE, FALSE, TRUE),
     Website(TRUE, TRUE, TRUE, 5, FALSE, TRUE, FALSE, TRUE),
     Website(TRUE, TRUE, TRUE, 1, FALSE, FALSE, TRUE, FALSE)}

Phones ==
    {Null, Phone(FALSE, 0, FALSE, TRUE), Phone(TRUE, 1, TRUE, FALSE)}

Subjects ==
    [companyName : CompanyNames, role : Roles, industry : Industries,
     businessEmail : Emails, websiteUrl : Websites, phoneNumber : Phones]

CleanSubject ==
    [companyName |-> CompanyName(0, FALSE, FALSE, FALSE), role |-> Role(0),
     industry |-> Industry(0, FALSE),
     businessEmail |-> Email(TRUE, FALSE, 0, FALSE),
     websiteUrl |-> CleanWebsite, phoneNumber |-> Phone(FALSE, 0, FALSE, TRUE)]

\* rows of the workflow: a clean one, a spammy one, one whose website has
\* no protocol, one without a phone number, and one whose role is null (a
\* row written without the model's validation)
StoredSubjects ==
    {CleanSubject,
     [companyName |-> CompanyName(MaxKeywords, TRUE, TRUE, TRUE), role |-> Role(1),
      industry |-> Industry(1, FALSE),
      businessEmail |-> Email(TRUE, TRUE, 3, TRUE),
      websiteUrl |-> Website(TRUE, TRUE, TRUE, 5, FALSE, TRUE, FALSE, TRUE),
      phoneNumber |-> Phone(TRUE, 1, TRUE, FALSE)],
     [CleanSubject EXCEPT !.websiteUrl = BareWebsite],
     [CleanSubject EXCEPT !.phoneNumber = Null],
     [CleanSubject EXCEPT !.role = Null]}

\* subjects the external verification is run on: every sampled e-mail,
\* phone and website, with and without a company name
ExternalSubjects ==
    {[CleanSubject EXCEPT !.companyName = c, !.businessEmail = e,
                          !.websiteUrl = w, !.phoneNumber = ph] :
        c \in {Null, CleanSubject.companyName}, e \in Emails, w \in Websites,
        ph \in Phones}

NotFound == [found |-> FALSE]
Found(data) == [found |-> TRUE, data |-> data]

\* provider replies
Failed == [kind |-> "fail"]

HunterReplies ==
    {Failed,
     [kind |-> "ok", result |-> "deliverable", mx_records |-> TRUE,
      smtp_server |-> TRUE, smtp_check |-> TRUE],
     [kind |-> "ok", result |-> "risky", mx_records |-> FALSE,
      smtp_server |-> FALSE, smtp_check |-> FALSE]}

NumverifyReplies ==
    {Failed,
     [kind |-> "ok", valid |-> TRUE, mobile |-> TRUE, carrier |-> TRUE],
     [kind |-> "ok", valid |-> FALSE, mobile |-> FALSE, carrier |-> FALSE]}

ClearbitReplies ==
    {Failed,
     [kind |-> "ok", hasName |-> TRUE, nameMatches |-> TRUE],
     [kind |-> "ok", hasName |-> FALSE, nameMatches |-> FALSE]}

ScrapeReplies ==
    {Failed,
     [kind |-> "ok", hasContactPage |-> TRUE, hasAboutPage |-> TRUE,
      hasPrivacyPolicy |-> TRUE, linkedin |-> TRUE, twitterOrFacebook |-> TRUE,
      bigContent |-> TRUE],
     [kind |-> "ok", hasContactPage |-> FALSE, hasAboutPage |-> FALSE,
      hasPrivacyPolicy |-> FALSE, linkedin |-> FALSE, twitterOrFacebook |-> FALSE,
      bigContent |-> FALSE]}

Nets ==
    [dnsEmail : BOOLEAN, dnsSite : BOOLEAN, hunter : HunterReplies,
     numverify : NumverifyReplies, clearbit : ClearbitReplies,
     scrape : ScrapeReplies]

\* every provider answers, and favourably
OkNet ==
    [dnsEmail |-> TRUE, dnsSite |-> TRUE,
     hunter |-> CHOOSE h \in HunterReplies : h.kind = "ok" /\ h.result = "deliverable",
     numverify |-> CHOOSE r \in NumverifyReplies : r.kind = "ok" /\ r.valid,
     clearbit |-> CHOOSE r \in ClearbitReplies : r.kind = "ok" /\ r.hasName,
     scrape |-> CHOOSE r \in ScrapeReplies : r.kind = "ok" /\ r.linkedin]

\* every provider fails or times out, and no domain resolves
DeadNet ==
    [dnsEmail |-> FALSE, dnsSite |-> FALSE, hunter |-> Failed,
     numverify |-> Failed, clearbit |-> Failed, scrape |-> Failed]

QuietNet ==
    [dnsEmail |-> TRUE, dnsSite |-> TRUE, hunter |-> Failed,
     numverify |-> Failed, clearbit |-> Failed, scrape |-> Failed]

\* payload values for score and confidence: absent, a string, out of range
\* on either side, the range's ends, and fractions on both sides of a half
PercentValues ==
    {Undefined, Str("85"), Num10(0 - 1), Num10(0), Num10(4), Num10(5),
     Num10(704), Num10(705), Num10(1000), Num10(1001)}

RecommendationValues ==
    {Undefined, Str("approve"), Str("flag"), Str("manual_review"),
     Str("reject"), Num10(10)}

Payloads ==
    [score : PercentValues, confidence : PercentValues,
     reasoning : {Undefined, Str("consistent business identity")},
     recommendation : RecommendationValues]

ProviderFailures ==
    {[kind |-> "throws"], [kind |-> "no_text"], [kind |-> "not_json"],
     [kind |-> "json_null"]}

GeminiCalls == ProviderFailures \cup {[kind |-> "json", payload |-> q] : q \in Payloads}

\* the payloads the workflow is run with
WorkflowPayloads ==
    {[score |-> Num10(s), confidence |-> Num10(c),
      reasoning |-> Str("consistent business identity"),
      recommendation |-> Str("approve")] :
        s \in {0, 300, 900}, c \in {0, 650, 900}}
    \cup {[score |-> Undefined, confidence |-> Undefined,
            reasoning |-> Undefined, recommendation |-> Undefined]}

WorkflowGeminiCalls ==
    ProviderFailures \cup {[kind |-> "json", payload |-> q] : q \in WorkflowPayloads}

NotCalled == [kind |-> "not_called"]
NoLLMResults == [score |-> 0, confidence |-> 0]
EmptyDb == [verificationResults |-> <<>>, recruiter |-> [status |-> "pending"]]
Running == [kind |-> "running"]
NoBatch == [called |-> FALSE]
NoInvocations == <<>>

\* the variables of the workflow's sources and persistence, and their
\* values where an operation is studied on its own
workflowVars ==
    <<recruiter, net, gemini, ruleBasedResults, externalResults, llmResults,
      db, outcome, batch, invocations>>

OutsideWorkflow ==
    /\ recruiter = Found(CleanSubject)
    /\ net = QuietNet
    /\ gemini = NotCalled
    /\ ruleBasedResults = Pending
    /\ externalResults = Pending
    /\ llmResults = NoLLMResults
    /\ db = EmptyDb
    /\ outcome = Running
    /\ batch = NoBatch
    /\ invocations = NoInvocations

\* ------------------------------------------------------------------------
\* makeDecision applied to every (finalScore, confidence)
\* ------------------------------------------------------------------------
InitDecision ==
    /\ pc = "calculated"
    /\ env \in ThresholdEnvs
    /\ fpBelowTie = FALSE
    /\ scores = CHOOSE s \in NoScores : TRUE
    /\ finalResults \in [finalScore : 0 .. 100, confidence : 0 .. 100]
    /\ decision = NoDecision
    /\ OutsideWorkflow

ApplyMakeDecision ==
    /\ pc = "calculated"
    /\ decision' = makeDecision(finalResults.finalScore, finalResults.confidence)
    /\ pc' = "decided"
    /\ UNCHANGED <<env, fpBelowTie, scores, finalResults>>
    /\ UNCHANGED workflowVars

NextDecision == ApplyMakeDecision

SpecDecision == InitDecision /\ [][NextDecision]_vars

\* ------------------------------------------------------------------------
\* calculateFinalScore applied to sampled PartialResults
\* ------------------------------------------------------------------------
InitScore ==
    /\ pc = "settled"
    /\ \/ /\ env = DefaultEnv
          /\ fpBelowTie = FALSE
          /\ scores \in ScoreInputs(0 .. 100)
       \/ /\ env \in WeightEnvs
          /\ fpBelowTie \in BOOLEAN
          /\ scores \in ScoreInputs({0, 85})
    /\ finalResults = NoResults
    /\ decision = NoDecision
    /\ OutsideWorkflow

ApplyCalculateFinalScore ==
    /\ pc = "settled"
    /\ finalResults' = calculateFinalScore(scores)
    /\ pc' = "calculated"
    /\ UNCHANGED <<env, fpBelowTie, scores, decision>>
    /\ UNCHANGED workflowVars

NextScore == ApplyCalculateFinalScore

SpecScore == InitScore /\ [][NextScore]_vars

\* ------------------------------------------------------------------------
\* ruleBasedScoring.scoreRecruiter applied to sampled subjects
\* ------------------------------------------------------------------------
InitRule ==
    /\ pc = "rule_called"
    /\ env = DefaultEnv
    /\ fpBelowTie \in BOOLEAN
    /\ recruiter \in {Found(s) : s \in Subjects}
    /\ net = QuietNet
    /\ gemini = NotCalled
    /\ ruleBasedResults = Pending
    /\ externalResults = Pending
    /\ llmResults = NoLLMResults
    /\ scores = CHOOSE s \in NoScores : TRUE
    /\ finalResults = NoResults
    /\ decision = NoDecision
    /\ db = EmptyDb
    /\ outcome = Running
    /\ batch = NoBatch
    /\ invocations = NoInvocations

ApplyRuleScoring ==
    /\ pc = "rule_called"
    /\ ruleBasedResults' = ruleBasedScoring_scoreRecruiter(recruiter.data)
    /\ pc' = "rule_settled"
    /\ UNCHANGED <<env, fpBelowTie, recruiter, net, gemini, externalResults,
                   llmResults, scores, finalResults, decision, db, outcome,
                   batch,
                   invocations>>

NextRule == ApplyRuleScoring

SpecRule == InitRule /\ [][NextRule]_vars

\* ------------------------------------------------------------------------
\* llmScoring.scoreRecruiter applied to sampled provider behaviours
\* ------------------------------------------------------------------------
\* the context argument: none while no rule result is given, else the
\* processed rule result
RuleContext ==
    IF ruleBasedResults = Pending
    THEN NoRuleContext
    ELSE handlePromiseResult(ruleBasedResults, "rule-based")

InitLLM ==
    /\ pc = "llm_called"
    /\ env \in {DefaultEnv, [DefaultEnv EXCEPT !.GEMINI_API_KEY = FALSE]}
    /\ fpBelowTie = FALSE
    /\ recruiter = Found(CleanSubject)
    /\ net = QuietNet
    /\ gemini \in GeminiCalls
    /\ ruleBasedResults \in
           {Pending} \cup {ruleBasedScoring_scoreRecruiter(s) : s \in StoredSubjects}
    /\ externalResults = Pending
    /\ llmResults = NoLLMResults
    /\ scores = CHOOSE s \in NoScores : TRUE
    /\ finalResults = NoResults
    /\ decision = NoDecision
    /\ db = EmptyDb
    /\ outcome = Running
    /\ batch = NoBatch
    /\ invocations = NoInvocations

ApplyLLMScoring ==
    /\ pc = "llm_called"
    /\ llmResults' = llmScoring_scoreRecruiter(RuleContext, gemini)
    /\ pc' = "llm_returned"
    /\ UNCHANGED <<env, fpBelowTie, recruiter, net, gemini, ruleBasedResults,
                   externalResults, scores, finalResults, decision, db, outcome,
                   batch,
                   invocations>>

NextLLM == ApplyLLMScoring

SpecLLM == InitLLM /\ [][NextLLM]_vars

\* ------------------------------------------------------------------------
\* externalVerification.verifyAll applied to sampled subjects and networks
\* ------------------------------------------------------------------------
AllKeysEnv == DefaultEnv
NoKeysEnv ==
    [DefaultEnv EXCEPT !.GEMINI_API_KEY = FALSE, !.HUNTER_API_KEY = FALSE,
                       !.NUMVERIFY_API_KEY = FALSE, !.CLEARBIT_API_KEY = FALSE]

InitExternal ==
    /\ pc = "external_called"
    /\ env \in {AllKeysEnv, NoKeysEnv}
    /\ fpBelowTie = FALSE
    /\ recruiter \in {Found(s) : s \in ExternalSubjects}
    /\ net \in Nets
    /\ gemini = NotCalled
    /\ ruleBasedResults = Pending
    /\ externalResults = Pending
    /\ llmResults = NoLLMResults
    /\ scores = CHOOSE s \in NoScores : TRUE
    /\ finalResults = NoResults
    /\ decision = NoDecision
    /\ db = EmptyDb
    /\ outcome = Running
    /\ batch = NoBatch
    /\ invocations = NoInvocations

ApplyVerifyAll ==
    /\ pc = "external_called"
    /\ externalResults' = [status |-> "fulfilled",
                           value |-> verifyAll(recruiter.data, net)]
    /\ pc' = "external_settled"
    /\ UNCHANGED <<env, fpBelowTie, recruiter, net, gemini, ruleBasedResults,
                   llmResults, scores, finalResults, decision, db, outcome, batch,
                   invocations>>

NextExternal == ApplyVerifyAll

SpecExternal == InitExternal /\ [][NextExternal]_vars

\* ------------------------------------------------------------------------
\* the combination (calculateFinalScore, makeDecision) computed repeatedly
\* from the same PartialResults
\* ------------------------------------------------------------------------
\* db.verificationResults keeps what each computation produced.
InitCombine ==
    /\ pc = "settled"
    /\ env \in WeightEnvs \cup ThresholdEnvs
    /\ fpBelowTie \in BOOLEAN
    /\ scores \in ScoreInputs({0, 50, 85})
    /\ finalResults = NoResults
    /\ decision = NoDecision
    /\ OutsideWorkflow

CombinationOf(fin, dec) ==
    [finalScore |-> fin.finalScore, confidence |-> fin.confidence,
     breakdown |-> fin.breakdown, decision |-> dec.decision]

\* a combination whose score grows with the number of earlier computations
Combine_CarriesHistory ==
    /\ pc = "settled"
    /\ Len(db.verificationResults) < MaxCombinations
    /\ LET first == calculateFinalScore(scores)
           fin == [first EXCEPT !.finalScore =
                       Min(100, @ + Len(db.verificationResults))]
           dec == makeDecision(fin.finalScore, fin.confidence)
       IN  /\ finalResults' = fin
           /\ decision' = dec
           /\ db' = [db EXCEPT !.verificationResults =
                         Append(@, CombinationOf(fin, dec))]
    /\ UNCHANGED <<pc, env, fpBelowTie, scores, recruiter, net, gemini,
                   ruleBasedResults, externalResults, llmResults, outcome, batch,
                   invocations>>

\* one computation of finalResults and decision from scores
Combine ==
    /\ pc = "settled"
    /\ Len(db.verificationResults) < MaxCombinations
    /\ LET fin == calculateFinalScore(scores)
           dec == makeDecision(fin.finalScore, fin.confidence)
       IN  /\ finalResults' = fin
           /\ decision' = dec
           /\ db' = [db EXCEPT !.verificationResults =
                         Append(@, CombinationOf(fin, dec))]
    /\ UNCHANGED <<pc, env, fpBelowTie, scores, recruiter, net, gemini,
                   ruleBasedResults, externalResults, llmResults, outcome, batch,
                   invocations>>

NextCombine == Combine

SpecCombine == InitCombine /\ [][NextCombine]_vars

\* ------------------------------------------------------------------------
\* the combination computed with the semantic fallback, for every rule
\* score and every external score
\* ------------------------------------------------------------------------
FallbackInputs(values) ==
    {[ruleBasedScore |-> [score |-> r],
      llmScore |-> getFallbackScore("fetch failed"),
      externalVerification |-> x] :
        r \in values,
        x \in {ChannelScores(v, v, v, v) : v \in values}
              \cup {NeutralResult("verification failed", "external")}}

InitFallback ==
    /\ pc = "settled"
    /\ \/ /\ env \in ThresholdEnvs
          /\ scores \in FallbackInputs(0 .. 100)
       \/ /\ env \in WeightEnvs
          /\ scores \in FallbackInputs(SampleScores)
    /\ fpBelowTie = FALSE
    /\ finalResults = NoResults
    /\ decision = NoDecision
    /\ OutsideWorkflow

SpecFallback == InitFallback /\ [][NextCombine]_vars

\* ------------------------------------------------------------------------
\* scoreRecruiter of the workflow
\* ------------------------------------------------------------------------
\* pc: start -> scoring (rule engine and external verification running)
\*     -> llm (semantic call running) -> saving -> updating -> done,
\*     or from any await -> catch -> thrown
WorkflowEnvs ==
    {DefaultEnv,
     [DefaultEnv EXCEPT !.GEMINI_API_KEY = FALSE],
     [DefaultEnv EXCEPT !.GEMINI_API_KEY = FALSE, !.HUNTER_API_KEY = FALSE,
                        !.NUMVERIFY_API_KEY = FALSE, !.CLEARBIT_API_KEY = FALSE]}

WorkflowNets ==
    {n \in Nets :
        /\ n.dnsEmail = n.dnsSite
        /\ (n.clearbit.kind = "ok") = (n.scrape.kind = "ok")
        /\ n.hunter.kind = "ok" => n.hunter.result = "deliverable"
        /\ n.numverify.kind = "ok" => n.numverify.valid
        /\ n.clearbit.kind = "ok" => n.clearbit.hasName /\ n.scrape.linkedin}

Init ==
    /\ pc = "start"
    /\ env \in WorkflowEnvs
    /\ fpBelowTie \in BOOLEAN
    /\ recruiter \in {NotFound} \cup {Found(s) : s \in StoredSubjects}
    /\ net = QuietNet
    /\ gemini = NotCalled
    /\ ruleBasedResults = Pending
    /\ externalResults = Pending
    /\ llmResults = NoLLMResults
    /\ scores = CHOOSE s \in NoScores : TRUE
    /\ finalResults = NoResults
    /\ decision = NoDecision
    /\ db = EmptyDb
    /\ outcome = Running
    /\ batch = NoBatch
    /\ invocations = NoInvocations

Failing(cause, message) == [kind |-> "failing", cause |-> cause, message |-> message]

\* findByPk finds the row; both sources are started
FetchRecruiter ==
    /\ pc = "start"
    /\ recruiter.found
    /\ \E n \in WorkflowNets : net' = n
    /\ pc' = "scoring"
    /\ UNCHANGED <<env, fpBelowTie, recruiter, gemini, ruleBasedResults,
                   externalResults, llmResults, scores, finalResults, decision,
                   db, outcome, batch,
                   invocations>>

FetchRecruiterMissing ==
    /\ pc = "start"
    /\ ~recruiter.found
    /\ outcome' = Failing("not_found", "Recruiter not found")
    /\ pc' = "catch"
    /\ UNCHANGED <<env, fpBelowTie, recruiter, net, gemini, ruleBasedResults,
                   externalResults, llmResults, scores, finalResults, decision, db,
                   batch,
                   invocations>>

RuleSettles ==
    /\ pc = "scoring"
    /\ ~Settled(ruleBasedResults)
    /\ ruleBasedResults' = ruleBasedScoring_scoreRecruiter(recruiter.data)
    /\ UNCHANGED <<pc, env, fpBelowTie, recruiter, net, gemini, externalResults,
                   llmResults, scores, finalResults, decision, db, outcome,
                   batch,
                   invocations>>

ExternalSettles ==
    /\ pc = "scoring"
    /\ ~Settled(externalResults)
    /\ externalResults' = [status |-> "fulfilled",
                           value |-> verifyAll(recruiter.data, net)]
    /\ UNCHANGED <<pc, env, fpBelowTie, recruiter, net, gemini, ruleBasedResults,
                   llmResults, scores, finalResults, decision, db, outcome,
                   batch,
                   invocations>>

\* StartLLM that does not wait for the rule engine
StartLLM_BeforeRule ==
    /\ pc = "scoring"
    /\ Settled(externalResults)
    /\ \E g \in WorkflowGeminiCalls : gemini' = g
    /\ pc' = "llm"
    /\ UNCHANGED <<env, fpBelowTie, recruiter, net, ruleBasedResults,
                   externalResults, llmResults, scores, finalResults, decision,
                   db, outcome, batch,
                   invocations>>

\* Promise.allSettled of both sources has resolved; the semantic call starts
StartLLM ==
    /\ pc = "scoring"
    /\ Settled(ruleBasedResults)
    /\ Settled(externalResults)
    /\ \E g \in WorkflowGeminiCalls : gemini' = g
    /\ pc' = "llm"
    /\ UNCHANGED <<env, fpBelowTie, recruiter, net, ruleBasedResults,
                   externalResults, llmResults, scores, finalResults, decision,
                   db, outcome, batch,
                   invocations>>

\* LLMSettles in which a rejected rule engine makes the workflow fail
LLMSettles_RuleFailureEscapes ==
    /\ pc = "llm"
    /\ IF ruleBasedResults.status = "rejected"
       THEN /\ outcome' = Failing("rule-based", ruleBasedResults.reason.message)
            /\ pc' = "catch"
            /\ UNCHANGED <<llmResults, scores, finalResults, decision>>
       ELSE /\ LET processedRuleResults == handlePromiseResult(ruleBasedResults, "rule-based")
                   processedExternalResults == handlePromiseResult(externalResults, "external")
                   llm == llmScoring_scoreRecruiter(processedRuleResults, gemini)
                   s == [ruleBasedScore |-> processedRuleResults,
                         llmScore |-> llm,
                         externalVerification |-> processedExternalResults]
                   fin == calculateFinalScore(s)
               IN  /\ llmResults' = llm
                   /\ scores' = s
                   /\ finalResults' = fin
                   /\ decision' = makeDecision(fin.finalScore, fin.confidence)
            /\ pc' = "saving"
            /\ UNCHANGED outcome
    /\ UNCHANGED <<env, fpBelowTie, recruiter, net, gemini, ruleBasedResults,
                   externalResults, db, batch,
                   invocations>>

\* the semantic call returns; the final score and the decision are computed
\* and VerificationResult.create is started
LLMSettles ==
    /\ pc = "llm"
    /\ LET processedRuleResults == handlePromiseResult(ruleBasedResults, "rule-based")
           processedExternalResults == handlePromiseResult(externalResults, "external")
           llm == llmScoring_scoreRecruiter(processedRuleResults, gemini)
           s == [ruleBasedScore |-> processedRuleResults,
                 llmScore |-> llm,
                 externalVerification |-> processedExternalResults]
           fin == calculateFinalScore(s)
       IN  /\ llmResults' = llm
           /\ scores' = s
           /\ finalResults' = fin
           /\ decision' = makeDecision(fin.finalScore, fin.confidence)
    /\ pc' = "saving"
    /\ UNCHANGED <<env, fpBelowTie, recruiter, net, gemini, ruleBasedResults,
                   externalResults, db, outcome, batch,
                   invocations>>

verificationResult ==
    VerificationResultOf(scores.ruleBasedScore, scores.llmScore,
                         scores.externalVerification, finalResults, decision)

CreateResult ==
    /\ pc = "saving"
    /\ db' = [db EXCEPT !.verificationResults = Append(@, verificationResult)]
    /\ pc' = "updating"
    /\ UNCHANGED <<env, fpBelowTie, recruiter, net, gemini, ruleBasedResults,
                   externalResults, llmResults, scores, finalResults, decision,
                   outcome, batch,
                   invocations>>

CreateResultFails ==
    /\ pc = "saving"
    /\ outcome' = Failing("persistence", "VerificationResult.create failed")
    /\ pc' = "catch"
    /\ UNCHANGED <<env, fpBelowTie, recruiter, net, gemini, ruleBasedResults,
                   externalResults, llmResults, scores, finalResults, decision, db,
                   batch,
                   invocations>>

\* updateRecruiterStatus, then the return
UpdateStatus ==
    /\ pc = "updating"
    /\ db' = [db EXCEPT !.recruiter =
                  [status |-> statusMap(decision.decision),
                   verificationScore |-> finalResults.finalScore]]
    /\ outcome' = [kind |-> "returned",
                   value |-> [success |-> TRUE,
                              recruiterId |-> RecruiterId,
                              verificationId |-> Len(db.verificationResults),
                              finalScore |-> finalResults.finalScore,
                              decision |-> decision.decision,
                              confidence |-> finalResults.confidence,
                              breakdown |-> finalResults.breakdown,
                              recommendation |-> decision.recommendation,
                              details |-> verificationResult]]
    /\ pc' = "done"
    /\ UNCHANGED <<env, fpBelowTie, recruiter, net, gemini, ruleBasedResults,
                   externalResults, llmResults, scores, finalResults, decision,
                   batch,
                   invocations>>

UpdateStatusFails ==
    /\ pc = "updating"
    /\ outcome' = Failing("persistence", "Recruiter.update failed")
    /\ pc' = "catch"
    /\ UNCHANGED <<env, fpBelowTie, recruiter, net, gemini, ruleBasedResults,
                   externalResults, llmResults, scores, finalResults, decision, db,
                   batch,
                   invocations>>

\* the catch block: saveErrorResult, then the error is thrown again
SaveErrorResult ==
    /\ pc = "catch"
    /\ db' = [db EXCEPT !.verificationResults =
                  Append(@, ErrorResultOf(outcome.message))]
    /\ outcome' = [outcome EXCEPT !.kind = "thrown"]
    /\ pc' = "thrown"
    /\ UNCHANGED <<env, fpBelowTie, recruiter, net, gemini, ruleBasedResults,
                   externalResults, llmResults, scores, finalResults, decision,
                   batch,
                   invocations>>

SaveErrorResultFails ==
    /\ pc = "catch"
    /\ outcome' = [outcome EXCEPT !.kind = "thrown"]
    /\ pc' = "thrown"
    /\ UNCHANGED <<env, fpBelowTie, recruiter, net, gemini, ruleBasedResults,
                   externalResults, llmResults, scores, finalResults, decision, db,
                   batch,
                   invocations>>

Next ==
    \/ FetchRecruiter
    \/ FetchRecruiterMissing
    \/ RuleSettles
    \/ ExternalSettles
    \/ StartLLM
    \/ LLMSettles
    \/ CreateResult
    \/ CreateResultFails
    \/ UpdateStatus
    \/ UpdateStatusFails
    \/ SaveErrorResult
    \/ SaveErrorResultFails

Spec == Init /\ [][Next]_vars

\* ------------------------------------------------------------------------
\* scoreRecruiter with a semantic provider that may never answer
\* ------------------------------------------------------------------------
\* The HTTP providers are called through an axios client with a timeout, so
\* an unanswered request ends as a failed one (kind "fail").  generateContent
\* is awaited with no timeout: its promise may stay pending for ever.
NoResponse == [kind |-> "no_response"]

\* llmScoring.scoreRecruiter reaches await model.generateContent(prompt)
awaitsProvider(ruleBasedContext) ==
    /\ env.GEMINI_API_KEY
    /\ ~buildPromptThrows(ruleBasedContext)

\* the semantic call starts and the provider will not answer it
StartLLMUnanswered ==
    /\ pc = "scoring"
    /\ Settled(ruleBasedResults)
    /\ Settled(externalResults)
    /\ gemini' = NoResponse
    /\ pc' = "llm"
    /\ UNCHANGED <<env, fpBelowTie, recruiter, net, ruleBasedResults,
                   externalResults, llmResults, scores, finalResults, decision,
                   db, outcome, batch,
                   invocations>>

\* the semantic call returns, which it does unless it is awaiting a provider
\* that does not answer
LLMSettlesIfAnswered ==
    /\ ~(/\ gemini = NoResponse
         /\ awaitsProvider(handlePromiseResult(ruleBasedResults, "rule-based")))
    /\ LLMSettles

NextLive ==
    \/ FetchRecruiter
    \/ FetchRecruiterMissing
    \/ RuleSettles
    \/ ExternalSettles
    \/ StartLLM
    \/ StartLLMUnanswered
    \/ LLMSettlesIfAnswered
    \/ CreateResult
    \/ CreateResultFails
    \/ UpdateStatus
    \/ UpdateStatusFails
    \/ SaveErrorResult
    \/ SaveErrorResultFails

\* the steps of NextLive other than the return of the semantic call
OtherSteps ==
    \/ FetchRecruiter
    \/ FetchRecruiterMissing
    \/ RuleSettles
    \/ ExternalSettles
    \/ StartLLM
    \/ StartLLMUnanswered
    \/ CreateResult
    \/ CreateResultFails
    \/ UpdateStatus
    \/ UpdateStatusFails
    \/ SaveErrorResult
    \/ SaveErrorResultFails

\* a step of LLMSettlesIfAnswered, told by pc: it is the only step of
\* NextLive from "llm" to "saving", and is enabled exactly when this is
LLMReturns ==
    /\ pc = "llm"
    /\ ~(/\ gemini = NoResponse
         /\ awaitsProvider(handlePromiseResult(ruleBasedResults, "rule-based")))
    /\ pc' = "saving"

\* every continuation that is ready to run is eventually run by the event
\* loop
SpecLive ==
    Init /\ [][NextLive]_vars /\ WF_vars(OtherSteps) /\ WF_pc(LLMReturns)

\* ------------------------------------------------------------------------
\* concurrent invocations of scoreRecruiter for one subject
\* ------------------------------------------------------------------------
\* signup starts scoreRecruiter without awaiting it, and triggerRescoring
\* and batchScoreRecruiters call it for the same id; the service holds no
\* lock.  invocations[i].at is the await invocation i has reached:
\*   "scoring"   before its finalResults and decision are computed
\*   "saving"    at await VerificationResult.create
\*   "updating"  at await this.updateRecruiterStatus
\*   "done"      returned
\* The sources may answer each invocation differently, so each one combines
\* to any of the sampled (finalScore, confidence).  The database accepts
\* every statement.
CombinedSamples == [finalScore : {20, 50, 80}, confidence : {40, 90}]

InitConcurrent ==
    /\ pc = "concurrent"
    /\ env = DefaultEnv
    /\ fpBelowTie = FALSE
    /\ recruiter = Found(CleanSubject)
    /\ net = QuietNet
    /\ gemini = NotCalled
    /\ ruleBasedResults = Pending
    /\ externalResults = Pending
    /\ llmResults = NoLLMResults
    /\ scores = CHOOSE s \in NoScores : TRUE
    /\ finalResults = NoResults
    /\ decision = NoDecision
    /\ db = EmptyDb
    /\ outcome = Running
    /\ batch = NoBatch
    /\ invocations = [i \in 1 .. MaxInvocations |-> [at |-> "scoring"]]

allButDbAndInvocations ==
    <<pc, env, fpBelowTie, recruiter, net, gemini, ruleBasedResults,
      externalResults, llmResults, scores, finalResults, decision, outcome,
      batch>>

\* invocation i computes its finalResults and decision
InvocationCombines ==
    \E i \in DOMAIN invocations, fin \in CombinedSamples :
        /\ invocations[i].at = "scoring"
        /\ invocations' =
               [invocations EXCEPT ![i] =
                   [at |-> "saving",
                    finalScore |-> fin.finalScore,
                    confidence |-> fin.confidence,
                    decision |-> makeDecision(fin.finalScore, fin.confidence).decision]]
        /\ UNCHANGED db
        /\ UNCHANGED allButDbAndInvocations

\* VerificationResult.create of invocation i
InvocationCreates ==
    \E i \in DOMAIN invocations :
        /\ invocations[i].at = "saving"
        /\ db' = [db EXCEPT !.verificationResults =
                      Append(@, [recruiterId |-> RecruiterId,
                                 finalScore |-> invocations[i].finalScore,
                                 decision |-> invocations[i].decision,
                                 confidence |-> invocations[i].confidence])]
        /\ invocations' = [invocations EXCEPT ![i].at = "updating"]
        /\ UNCHANGED allButDbAndInvocations

\* updateRecruiterStatus of invocation i, then its return
InvocationUpdates ==
    \E i \in DOMAIN invocations :
        /\ invocations[i].at = "updating"
        /\ db' = [db EXCEPT !.recruiter =
                      [status |-> statusMap(invocations[i].decision),
                       verificationScore |-> invocations[i].finalScore]]
        /\ invocations' = [invocations EXCEPT ![i].at = "done"]
        /\ UNCHANGED allButDbAndInvocations

NextConcurrent ==
    \/ InvocationCombines
    \/ InvocationCreates
    \/ InvocationUpdates

SpecConcurrent == InitConcurrent /\ [][NextConcurrent]_vars

\* ------------------------------------------------------------------------
\* batchScoreRecruiters
\* ------------------------------------------------------------------------
\* scoreRecruiter is taken by its outcome: it returns for an id findByPk
\* resolves, and throws for an id it does not resolve or when persisting
\* fails.
IdPool == {"a", "b", "c"}

RECURSIVE IdLists(_)
IdLists(n) ==
    IF n = 0 THEN {<<>>}
    ELSE IdLists(n - 1)
         \cup {Append(l, id) : l \in {m \in IdLists(n - 1) : Len(m) = n - 1},
                               id \in IdPool}

BatchCalls ==
    {[called |-> TRUE,
      recruiterIds |-> ids,
      concurrency |-> c,
      continueOnError |-> coe,
      existing |-> ex,
      i |-> 0,
      decides |-> [p \in 1 .. Len(ids) |-> NotDecided],
      promises |-> [p \in 1 .. Len(ids) |-> NotStarted],
      results |-> <<>>] :
        ids \in IdLists(MaxBatch), c \in 1 .. MaxConcurrency, coe \in BOOLEAN,
        ex \in {IdPool, {"a", "c"}, {}}}

InitBatch ==
    /\ pc = "batch_loop"
    /\ env = DefaultEnv
    /\ fpBelowTie = FALSE
    /\ recruiter = Found(CleanSubject)
    /\ net = QuietNet
    /\ gemini = NotCalled
    /\ ruleBasedResults = Pending
    /\ externalResults = Pending
    /\ llmResults = NoLLMResults
    /\ scores = CHOOSE s \in NoScores : TRUE
    /\ finalResults = NoResults
    /\ decision = NoDecision
    /\ db = EmptyDb
    /\ outcome = Running
    /\ batch \in BatchCalls
    /\ invocations = NoInvocations

notBatchVars ==
    <<env, fpBelowTie, recruiter, net, gemini, ruleBasedResults, externalResults,
      llmResults, scores, finalResults, decision, db, outcome, invocations>>

\* one iteration of the for loop up to its await: the callbacks of the
\* slice are all started
StartChunk ==
    /\ pc = "batch_loop"
    /\ batch.i < Len(batch.recruiterIds)
    /\ batch' = [batch EXCEPT !.promises =
                     [p \in DOMAIN @ |-> IF p \in batchSlice(batch)
                                         THEN Pending ELSE @[p]]]
    /\ pc' = "batch_await"
    /\ UNCHANGED notBatchVars

DecideSettles(p, decided) ==
    /\ pc = "batch_await"
    /\ p \in DOMAIN batch.promises
    /\ batch.promises[p] = Pending
    /\ batch' = [batch EXCEPT
                     !.decides[p] = decided,
                     !.promises[p] = batchCallback(batch.recruiterIds[p], decided,
                                                   batch.continueOnError)]
    /\ UNCHANGED <<pc, env, fpBelowTie, recruiter, net, gemini, ruleBasedResults,
                   externalResults, llmResults, scores, finalResults, decision,
                   db, outcome, invocations>>

\* scoreRecruiter returns its record
DecideReturns ==
    \E p \in 1 .. Len(batch.recruiterIds) :
        /\ batch.recruiterIds[p] \in batch.existing
        /\ DecideSettles(p, [kind |-> "returned",
                             value |-> [success |-> TRUE,
                                        recruiterId |-> batch.recruiterIds[p]]])

\* scoreRecruiter throws: the subject is not found, or persisting fails
DecideThrows ==
    \E p \in 1 .. Len(batch.recruiterIds) :
        DecideSettles(p, IF batch.recruiterIds[p] \in batch.existing
                         THEN [kind |-> "thrown", cause |-> "persistence",
                               message |-> "VerificationResult.create failed"]
                         ELSE [kind |-> "thrown", cause |-> "not_found",
                               message |-> "Recruiter not found: " \o batch.recruiterIds[p]])

\* Promise.allSettled(batchPromises) resolves; results.push; i += concurrency
ChunkSettles ==
    /\ pc = "batch_await"
    /\ \A p \in batchSlice(batch) : Settled(batch.promises[p])
    /\ batch' = [batch EXCEPT
                     !.results = @ \o chunkEntries(batch, batch.i + 1,
                                        Min(batch.i + batch.concurrency,
                                            Len(batch.recruiterIds))),
                     !.i = @ + batch.concurrency]
    /\ pc' = "batch_loop"
    /\ UNCHANGED notBatchVars

BatchReturns ==
    /\ pc = "batch_loop"
    /\ batch.i >= Len(batch.recruiterIds)
    /\ outcome' = [kind |-> "returned", value |-> batchSummary(batch.results)]
    /\ pc' = "batch_returned"
    /\ UNCHANGED <<env, fpBelowTie, recruiter, net, gemini, ruleBasedResults,
                   externalResults, llmResults, scores, finalResults, decision,
                   db, batch,
                   invocations>>

NextBatch ==
    \/ StartChunk
    \/ DecideReturns
    \/ DecideThrows
    \/ ChunkSettles
    \/ BatchReturns

SpecBatch == InitBatch /\ [][NextBatch]_vars

\* ------------------------------------------------------------------------
\* batchScoreRecruiters with every concurrency option from 0
\* ------------------------------------------------------------------------
InitBatchFromZero ==
    /\ pc = "batch_loop"
    /\ env = DefaultEnv
    /\ fpBelowTie = FALSE
    /\ recruiter = Found(CleanSubject)
    /\ net = QuietNet
    /\ gemini = NotCalled
    /\ ruleBasedResults = Pending
    /\ externalResults = Pending
    /\ llmResults = NoLLMResults
    /\ scores = CHOOSE s \in NoScores : TRUE
    /\ finalResults = NoResults
    /\ decision = NoDecision
    /\ db = EmptyDb
    /\ outcome = Running
    /\ \E b \in BatchCalls, c \in 0 .. MaxConcurrency :
           batch = [b EXCEPT !.concurrency = c]
    /\ invocations = NoInvocations

\* every scoreRecruiter settles and every continuation that is ready to run
\* is eventually run by the event loop
SpecBatchLive == InitBatchFromZero /\ [][NextBatch]_vars /\ WF_vars(NextBatch)

\* ------------------------------------------------------------------------
\* Properties of makeDecision (SpecDecision)
\* ------------------------------------------------------------------------
Decided == pc = "decided"

\* C1: under the default thresholds makeDecision approves exactly when
\* finalScore >= 70 and confidence >= 70, flags exactly when
\* finalScore < 40 and confidence >= 60, and gives pending_review in every
\* other case; (70,70) approves, (69,70) is pending_review, (39,60) flags.
C1_DecisionTable ==
    (Decided /\ spamThreshold(env) = 70) =>
        LET fs == finalResults.finalScore
            c == finalResults.confidence
            approve == fs >= 70 /\ c >= 70
            flag == fs < 40 /\ c >= 60
        IN  /\ (decision.decision = "approved") <=> approve
            /\ (decision.decision = "flagged") <=> flag
            /\ (decision.decision = "pending_review") <=> (~approve /\ ~flag)
            /\ (fs = 70 /\ c = 70) => decision.decision = "approved"
            /\ (fs = 69 /\ c = 70) => decision.decision = "pending_review"
            /\ (fs = 39 /\ c = 60) => decision.decision = "flagged"

C1_Witness ==
    /\ Decided
    /\ env.SPAM_THRESHOLD = 0
    /\ finalResults.finalScore = 70
    /\ finalResults.confidence = 70
    /\ decision.decision = "approved"

\* C2: a confidence below 50 gives pending_review, for every finalScore
\* and every configured approve threshold.
C2_LowConfidencePending ==
    (Decided /\ finalResults.confidence < 50) =>
        decision.decision = "pending_review"

C2_Witness ==
    /\ Decided
    /\ env.SPAM_THRESHOLD = 1
    /\ finalResults.finalScore = 100
    /\ finalResults.confidence = 49
    /\ decision.decision = "pending_review"

\* ------------------------------------------------------------------------
\* Properties of calculateFinalScore (SpecScore)
\* ------------------------------------------------------------------------
Calculated == pc = "calculated"

\* the scores the three sources returned, in Units
ReturnedScores(s) ==
    [ruleBased |-> s.ruleBasedScore.score * Unit,
     llm |-> s.llmScore.score * Unit,
     external |-> calculateExternalScore(s.externalVerification)]

Clamp(x, lo, hi) == Max(lo, Min(hi, x))

\* C3: finalScore is clamp(rule*w_rule + semantic*w_semantic +
\* external*w_external, 0, 100) rounded to the nearest integer, for the
\* scores the sources returned, and the breakdown's rawScores are those
\* scores.
C3_FinalScoreIsWeightedSum ==
    Calculated =>
        LET raw == ReturnedScores(scores)
            w == weights(env)
            scale == Unit * WeightScale
            sum == raw.ruleBased * w.ruleBased + raw.llm * w.llm
                   + raw.external * w.external
            clamped == Clamp(sum, 0, 100 * scale)
            diff == finalResults.finalScore * scale - clamped
        IN  /\ 2 * diff <= scale
            /\ 2 * diff >= 0 - scale
            /\ finalResults.breakdown.rawScores = raw

WeightsSumToOne ==
    LET w == weights(env)
        total == w.ruleBased + w.llm + w.external
    IN  total >= WeightScale - 1 /\ total <= WeightScale + 1

\* C4: for weights summing to 1.0 +/- 0.01 and raw scores in [0,100],
\* finalScore is in [0,100].
C4_FinalScoreInRange ==
    (Calculated /\ WeightsSumToOne) =>
        finalResults.finalScore \in 0 .. 100

\* the weighted sum exceeds 100 and is clamped
C4_Witness ==
    /\ Calculated
    /\ WeightsSumToOne
    /\ LET b == finalResults.breakdown
       IN  b.ruleBasedWeighted + b.llmWeighted + b.externalWeighted
               > 100 * Unit * WeightScale
    /\ finalResults.finalScore = 100

\* clamp(c - p + b, 0, 100) as the claim words it, scores in Units
ClaimedConfidence(c, x1, x2, x3) ==
    LET p == IF StdDevAbove(x1, x2, x3, 20) THEN 15
             ELSE IF StdDevAbove(x1, x2, x3, 10) THEN 8
             ELSE 0
        allHigh == \A x \in {x1, x2, x3} : x > 70 * Unit
        allLow == \A x \in {x1, x2, x3} : x < 40 * Unit
        b == IF allHigh \/ allLow THEN 10 ELSE 0
    IN  Clamp(c - p + b, 0, 100)

\* C5: confidence is clamp(c - p + b, 0, 100), c being exactly the
\* semantic result's confidence, p the std-dev penalty (15 above 20, else
\* 8 above 10, else 0) and b the agreement bonus (10 if all three raw
\* scores are high or all are low); it is in [0,100].
C5_ConfidenceFormula ==
    Calculated =>
        LET raw == ReturnedScores(scores)
        IN  /\ finalResults.confidence =
                  ClaimedConfidence(scores.llmScore.confidence,
                                    raw.ruleBased, raw.llm, raw.external)
            /\ finalResults.confidence \in 0 .. 100

\* the input s with one source's raw score forced to 20
ForcedTo20(s, source) ==
    CASE source = "ruleBased" -> [s EXCEPT !.ruleBasedScore.score = 20]
      [] source = "llm" -> [s EXCEPT !.llmScore.score = 20]
      [] source = "external" ->
            [s EXCEPT !.externalVerification = ChannelScores(20, 20, 20, 20)]

AllAtLeast80(s) ==
    LET raw == ReturnedScores(s)
    IN  /\ raw.ruleBased >= 80 * Unit
        /\ raw.llm >= 80 * Unit
        /\ raw.external >= 80 * Unit

\* C6: with all three raw scores >= 80 the confidence is strictly higher
\* than for the same input with one raw score replaced by 20, for every
\* semantic confidence.
C6_AgreementBeatsOutlier ==
    (Calculated /\ AllAtLeast80(scores)) =>
        \A source \in {"ruleBased", "llm", "external"} :
            finalResults.confidence > confidenceOf(ForcedTo20(scores, source))

\* the upper clamp is active on the agreeing side
C6_Witness ==
    /\ Calculated
    /\ AllAtLeast80(scores)
    /\ scores.llmScore.confidence = 95
    /\ finalResults.confidence = 100
    /\ confidenceOf(ForcedTo20(scores, "llm")) = 80

HighStdDev(s) ==
    LET raw == rawScores(s)
    IN  StdDevAbove(raw.ruleBased, raw.llm, raw.external, 20)

\* the sampled inputs whose raw scores have std-dev at or below 20
LowStdDevInputs == {s \in ScoreInputs({50}) : ~HighStdDev(s)}

WithConfidence(s, c) == [s EXCEPT !.llmScore.confidence = c]

\* for each semantic confidence c, the confidences computed for the
\* inputs of LowStdDevInputs taken with semantic confidence c
LowStdDevConfidences ==
    [c \in 0 .. 100 |-> {confidenceOf(WithConfidence(s, c)) : s \in LowStdDevInputs}]

\* C7 as claimed: std-dev above 20 gives a strictly lower confidence than
\* any input with the same semantic confidence and std-dev at or below 20
\* (checked where the raw scores taken are the scores the sources returned).
C7_HighStdDevStrictlyLower ==
    (/\ Calculated
     /\ HighStdDev(scores)
     /\ rawScores(scores) = ReturnedScores(scores)) =>
        \A other \in LowStdDevConfidences[scores.llmScore.confidence] :
            finalResults.confidence < other

\* C7 amended: std-dev above 20 never gives a higher confidence than an
\* input with the same semantic confidence and std-dev at or below 20, and
\* gives a strictly lower one unless that input's confidence is 0.
C7_HighStdDevLower ==
    (Calculated /\ HighStdDev(scores)) =>
        \A other \in LowStdDevConfidences[scores.llmScore.confidence] :
            /\ finalResults.confidence <= other
            /\ other > 0 => finalResults.confidence < other

C7_Witness ==
    /\ Calculated
    /\ HighStdDev(scores)
    /\ scores.llmScore.confidence = 60
    /\ finalResults.confidence = 45
    /\ LowStdDevConfidences[60] = {52, 60, 62, 70}

\* ------------------------------------------------------------------------
\* Properties of the semantic adapter and of its failure (Spec, SpecLLM)
\* ------------------------------------------------------------------------
\* the semantic provider failed: no API key, the call threw, or the payload
\* is missing or is not JSON
LLMFailure ==
    \/ ~env.GEMINI_API_KEY
    \/ gemini.kind \in {"throws", "no_text", "not_json", "json_null"}

\* the semantic call of this execution has returned
LLMReturned == gemini # NotCalled /\ pc # "llm"

HasErrorFrom(errors, source) == \E i \in DOMAIN errors : errors[i].source = source

\* C8: when the semantic provider fails (missing API key, call exception,
\* non-JSON or missing payload), llmScoring.scoreRecruiter returns the
\* fallback {score 50, confidence 0, error}, the workflow does not fail
\* because of it (it only throws when persistence fails), and the record it
\* returns has semantic confidence 0 and an error entry for the llm source.
C8_SemanticFailureDegrades ==
    (LLMReturned /\ LLMFailure) =>
        /\ llmResults.score = 50
        /\ llmResults.confidence = 0
        /\ Has(llmResults, "error")
        /\ pc \in {"saving", "updating", "done", "catch", "thrown"}
        /\ outcome.kind \in {"failing", "thrown"} => outcome.cause = "persistence"
        /\ pc = "done" =>
               /\ outcome.kind = "returned"
               /\ outcome.value.details.llmScore.confidence = 0
               /\ HasErrorFrom(outcome.value.details.processingMetrics.errors, "llm")

C8_Witness ==
    /\ pc = "done"
    /\ env.GEMINI_API_KEY
    /\ gemini.kind = "not_json"
    /\ outcome.kind = "returned"
    /\ outcome.value.details.llmScore.confidence = 0
    /\ HasErrorFrom(outcome.value.details.processingMetrics.errors, "llm")

\* normalizeResponse has run on a parsed payload
Normalized ==
    /\ pc = "llm_returned"
    /\ env.GEMINI_API_KEY
    /\ ~buildPromptThrows(RuleContext)
    /\ gemini.kind = "json"

\* the payload's value is kept (up to rounding to an integer) when it is a
\* number in [0,100], and replaced by default otherwise
KeptOrDefault(result, x, default) ==
    IF ValidPercent(x)
    THEN (10 * result - x.val10) \in (0 - 5) .. 5
    ELSE result = default

RecommendationCoerced ==
    LET x == gemini.payload.recommendation
    IN  IF x.type = "string" /\ x.text \in {"approve", "flag", "manual_review"}
        THEN llmResults.recommendation = x.text
        ELSE llmResults.recommendation = "manual_review"

\* C9 as claimed: normalizeResponse keeps score and confidence only if each
\* is a number in [0,100]; an invalid or missing score becomes 50, an
\* invalid or missing confidence becomes 0, and a recommendation outside
\* {approve, flag, manual_review} becomes the default.
C9_DefaultsFiftyAndZero ==
    Normalized =>
        /\ KeptOrDefault(llmResults.score, gemini.payload.score, 50)
        /\ KeptOrDefault(llmResults.confidence, gemini.payload.confidence, 0)
        /\ RecommendationCoerced

\* C9 amended: as above, but an invalid or missing confidence becomes 50,
\* and a kept value is an integer in 0..100.
C9_DefaultsFiftyAndFifty ==
    Normalized =>
        /\ KeptOrDefault(llmResults.score, gemini.payload.score, 50)
        /\ KeptOrDefault(llmResults.confidence, gemini.payload.confidence, 50)
        /\ llmResults.score \in 0 .. 100
        /\ llmResults.confidence \in 0 .. 100
        /\ RecommendationCoerced

C9_Witness ==
    /\ Normalized
    /\ gemini.payload.score = Num10(1001)
    /\ gemini.payload.confidence = Undefined
    /\ gemini.payload.recommendation = Str("reject")
    /\ llmResults.score = 50
    /\ llmResults.confidence = 50
    /\ llmResults.recommendation = "manual_review"

\* ------------------------------------------------------------------------
\* Properties of the rule engine (SpecRule)
\* ------------------------------------------------------------------------
\* C10: for every subject, including subjects with a null or malformed
\* attribute, ruleBasedScoring.scoreRecruiter returns a result with a score
\* in [0,100] and never throws.
C10_RuleEngineNeverThrows ==
    pc = "rule_settled" =>
        /\ ruleBasedResults.status = "fulfilled"
        /\ ruleBasedResults.value.score \in 0 .. 100

\* ------------------------------------------------------------------------
\* Properties of the external verification (SpecExternal)
\* ------------------------------------------------------------------------
VerifiedAll == pc = "external_settled"

\* the network in which the providers of ch behave as in n and the
\* providers of every other channel answer
SiblingsAnswer(n, ch) ==
    CASE ch = "email" -> [OkNet EXCEPT !.hunter = n.hunter, !.dnsEmail = n.dnsEmail]
      [] ch = "phone" -> [OkNet EXCEPT !.numverify = n.numverify]
      [] ch = "company" -> [OkNet EXCEPT !.clearbit = n.clearbit, !.scrape = n.scrape]
      [] ch = "domain" -> [OkNet EXCEPT !.dnsSite = n.dnsSite]

\* a provider the channel calls failed or timed out
ProviderFailed(ch) ==
    CASE ch = "email" -> env.HUNTER_API_KEY /\ net.hunter.kind = "fail"
      [] ch = "phone" -> env.NUMVERIFY_API_KEY /\ net.numverify.kind = "fail"
      [] ch = "company" -> (env.CLEARBIT_API_KEY /\ net.clearbit.kind = "fail")
                           \/ net.scrape.kind = "fail"
      [] ch = "domain" -> ~net.dnsSite

\* C11: whatever the providers of the four channels do (answer, error,
\* timeout, exception), verifyAll returns a result with a numeric score in
\* [0,100] for every channel, and the result of every channel is the one it
\* has when the providers of its sibling channels all answer.
C11_ChannelFailuresIsolated ==
    VerifiedAll =>
        /\ externalResults.status = "fulfilled"
        /\ \A ch \in Channels :
              /\ HasScore(externalResults.value, ch)
              /\ externalResults.value[ch].score \in 0 .. 100
              /\ externalResults.value[ch]
                   = verifyAll(recruiter.data, SiblingsAnswer(net, ch))[ch]

\* three channels fail and the phone channel is answered
C11_Witness ==
    /\ VerifiedAll
    /\ recruiter.data = CleanSubject
    /\ env = AllKeysEnv
    /\ ProviderFailed("email") /\ ProviderFailed("company") /\ ProviderFailed("domain")
    /\ ~ProviderFailed("phone")
    /\ externalResults.value.phone.provider = "numverify"
    /\ externalResults.value.phone.score = 95
    /\ externalResults.value.email.provider = "dns-fallback"

\* every channel calls its providers (the attributes are well formed) and
\* every provider fails or times out
EveryChannelFails ==
    /\ env = AllKeysEnv
    /\ net = DeadNet
    /\ ~Falsy(recruiter.data.businessEmail) /\ recruiter.data.businessEmail.isEmail
    /\ ~Falsy(recruiter.data.phoneNumber)
    /\ ~Falsy(recruiter.data.websiteUrl) /\ recruiter.data.websiteUrl.isURL
    /\ recruiter.data.websiteUrl.parses

\* C13: if every verification channel fails, the external score is one
\* fixed value that does not depend on the subject's attributes (it is the
\* score of any other subject under the same failures), and the errors list
\* has one entry per failed channel.
C13_AllFailFixedScore ==
    (VerifiedAll /\ EveryChannelFails) =>
        /\ calculateExternalScore(externalResults.value)
             = calculateExternalScore(verifyAll(CleanSubject, net))
        /\ Len(externalResults.value.errors) = Cardinality(Channels)

\* ------------------------------------------------------------------------
\* Properties of the workflow (Spec)
\* ------------------------------------------------------------------------
\* calculateFinalScore of this execution has run
Combined == Has(finalResults, "breakdown")

\* the channel scores of the processed external result
ChannelScore(ch) == scores.externalVerification[ch].score

\* the hunter.io call of the email channel fails or times out and the
\* providers of the other three channels answer
OnlyEmailTimesOut ==
    /\ env = AllKeysEnv
    /\ recruiter.data = CleanSubject
    /\ net.hunter.kind = "fail"
    /\ net.numverify.kind = "ok"
    /\ net.clearbit.kind = "ok" /\ net.scrape.kind = "ok"
    /\ net.dnsSite

\* C12 as claimed: with one of the four channels timing out, the external
\* score of the weighted sum is the mean of the three other channel scores.
C12_MeanOfThreeResolved ==
    (Combined /\ OnlyEmailTimesOut) =>
        3 * finalResults.breakdown.rawScores.external
          = Unit * (ChannelScore("phone") + ChannelScore("company")
                    + ChannelScore("domain"))

\* C12 amended: the external score of the weighted sum is the mean of the
\* four channel scores, a channel whose provider failed or timed out
\* counting with its fallback score; and the workflow goes on to return
\* (it throws only when persistence fails).
C12_MeanOfAllChannels ==
    Combined =>
        /\ 4 * finalResults.breakdown.rawScores.external
             = Unit * (ChannelScore("email") + ChannelScore("phone")
                       + ChannelScore("company") + ChannelScore("domain"))
        /\ outcome.kind \in {"failing", "thrown"} => outcome.cause = "persistence"
        /\ pc = "done" => outcome.kind = "returned"

C12_Witness ==
    /\ pc = "done"
    /\ OnlyEmailTimesOut
    /\ net.dnsEmail
    /\ ChannelScore("email") = 40
    /\ ChannelScore("phone") = 95
    /\ 4 * finalResults.breakdown.rawScores.external
         = Unit * (40 + 95 + ChannelScore("company") + ChannelScore("domain"))
    /\ outcome.kind = "returned"

\* the semantic call of this execution has started
LLMStarted == gemini # NotCalled

\* C14: the semantic call starts only after the rule engine has resolved
\* (fulfilled or rejected), and the rule engine and the external
\* verification are both started, in the step that follows findByPk, before
\* either of them resolves.
C14_LLMAfterRuleEngine ==
    /\ LLMStarted => Settled(ruleBasedResults)
    /\ (Settled(ruleBasedResults) \/ Settled(externalResults)) =>
           recruiter.found /\ pc # "start"

\* the semantic call is running after a rejected rule engine
C14_Witness ==
    /\ pc = "llm"
    /\ LLMStarted
    /\ ruleBasedResults.status = "rejected"

\* C15: the semantic call does not wait on the external verification:
\* whenever the rule engine has resolved and the external verification has
\* not, the semantic call can start.
C15_LLMDoesNotWaitOnExternal ==
    (pc = "scoring" /\ Settled(ruleBasedResults) /\ ~Settled(externalResults)) =>
        ENABLED StartLLM

WorkflowThrows == outcome.kind \in {"failing", "thrown"}

\* C16 as claimed: the workflow throws only when the subject cannot be
\* resolved.
C16_ThrowsOnlyForMissingSubject ==
    WorkflowThrows => ~recruiter.found

\* C16 amended: the workflow throws only when the subject cannot be
\* resolved or when persisting fails (VerificationResult.create,
\* Recruiter.update); for an existing subject no failure of the rule
\* engine, the external verification or the semantic call makes it throw:
\* the DecisionRecord is computed and, persistence permitting, returned.
C16_SourceFailuresNeverThrow ==
    /\ WorkflowThrows => outcome.cause \in {"not_found", "persistence"}
    /\ (WorkflowThrows /\ outcome.cause = "not_found") => ~recruiter.found
    /\ (WorkflowThrows /\ outcome.cause = "persistence") => recruiter.found /\ Combined
    /\ pc = "done" =>
           /\ outcome.kind = "returned"
           /\ outcome.value.details = verificationResult

\* returned with the rule engine rejected, every verification provider
\* failing and the semantic provider throwing
C16_Witness ==
    /\ pc = "done"
    /\ outcome.kind = "returned"
    /\ ruleBasedResults.status = "rejected"
    /\ env = AllKeysEnv
    /\ net = DeadNet
    /\ gemini.kind = "throws"
    /\ outcome.value.decision = "pending_review"

\* ------------------------------------------------------------------------
\* Properties of batchScoreRecruiters (SpecBatch)
\* ------------------------------------------------------------------------
BatchReturned == pc = "batch_returned"
BatchSummary == outcome.value
Positions == 1 .. Len(batch.recruiterIds)

\* the results entries that carry the id
EntriesOf(id) ==
    {k \in DOMAIN BatchSummary.results :
        /\ Has(BatchSummary.results[k], "recruiterId")
        /\ BatchSummary.results[k].recruiterId = id}

\* C17: for every id list, every concurrency of at least 1 and both values
\* of continueOnError, the returned summary has exactly one results entry
\* per input id that carries that id, total is the number of input ids and
\* successful + failed = total.
C17_OneEntryPerInputId ==
    BatchReturned =>
        /\ \A id \in IdPool :
               Cardinality(EntriesOf(id))
                   = Cardinality({p \in Positions : batch.recruiterIds[p] = id})
        /\ BatchSummary.total = Len(batch.recruiterIds)
        /\ BatchSummary.successful + BatchSummary.failed = BatchSummary.total

\* C18: with continueOnError true a failing subject yields a failed entry
\* and every other subject is still processed: the batch returns one entry
\* per position, carrying the id of that position, with success exactly
\* when the decide of that position returned; an id that does not resolve
\* is failed.  For [a, b, c] at concurrency 2 with b not resolving these are
\* 3 entries, b failed, a and c decided.
C18_FailureYieldsFailedEntry ==
    (BatchReturned /\ batch.continueOnError) =>
        /\ Len(BatchSummary.results) = Len(batch.recruiterIds)
        /\ \A p \in Positions :
               LET r == BatchSummary.results[p]
               IN  /\ Has(r, "recruiterId")
                   /\ r.recruiterId = batch.recruiterIds[p]
                   /\ Has(r, "success")
                   /\ r.success = (batch.decides[p].kind = "returned")
                   /\ batch.recruiterIds[p] \notin batch.existing => ~r.success

C18_Witness ==
    /\ BatchReturned
    /\ batch.continueOnError
    /\ batch.recruiterIds = <<"a", "b", "c">>
    /\ batch.concurrency = 2
    /\ batch.existing = {"a", "c"}
    /\ Len(BatchSummary.results) = 3
    /\ BatchSummary.results[1].success
    /\ ~BatchSummary.results[2].success
    /\ BatchSummary.results[2].recruiterId = "b"
    /\ BatchSummary.results[3].success
    /\ BatchSummary.successful = 2
    /\ BatchSummary.failed = 1

\* the chunk of a position: the iteration of the for loop that slices it
ChunkOf(p) == (p - 1) \div batch.concurrency
DecideStarted(p) == batch.promises[p] # NotStarted
DecideInFlight(p) == batch.promises[p] = Pending

\* C19: with continueOnError false the first fatal failure aborts the
\* remaining work: once a decide has thrown, no subject of a later chunk is
\* ever started.
C19_FailureAbortsLaterChunks ==
    (batch.called /\ ~batch.continueOnError) =>
        \A p, q \in Positions :
            (batch.decides[p].kind = "thrown" /\ ChunkOf(q) > ChunkOf(p))
                => ~DecideStarted(q)

\* C20: chunks run one after another: no decide of a later chunk is started
\* before every decide of the earlier chunks has settled, and at most
\* concurrency decides are in flight at any time.
C20_ChunksSequential ==
    batch.called =>
        /\ \A p, q \in Positions :
               (ChunkOf(p) < ChunkOf(q) /\ DecideStarted(q))
                   => Settled(batch.promises[p])
        /\ Cardinality({p \in Positions : DecideInFlight(p)}) <= batch.concurrency

C20_Witness ==
    /\ batch.called
    /\ Len(batch.recruiterIds) = 3
    /\ batch.concurrency = 2
    /\ Settled(batch.promises[1])
    /\ Settled(batch.promises[2])
    /\ DecideInFlight(3)

\* ------------------------------------------------------------------------
\* Persistence of the decision (Spec)
\* ------------------------------------------------------------------------
DecideReturned == pc = "done"

\* the status the decision is to be stored as
ClaimedStatus(d) ==
    CASE d = "approved" -> "approved"
      [] d = "flagged" -> "flagged"
      [] d = "pending_review" -> "pending"

\* C21: after every successful decide the subject's persisted status is the
\* image of the returned decision under approved -> approved,
\* flagged -> flagged, pending_review -> pending, and its persisted
\* verification score equals the returned finalScore.
C21_StatusIsImageOfDecision ==
    DecideReturned =>
        /\ outcome.value.decision \in {"approved", "flagged", "pending_review"}
        /\ db.recruiter.status = ClaimedStatus(outcome.value.decision)
        /\ db.recruiter.verificationScore = outcome.value.finalScore

C21_Witness ==
    /\ DecideReturned
    /\ outcome.value.decision = "flagged"
    /\ db.recruiter.status = "flagged"
    /\ db.recruiter.verificationScore = outcome.value.finalScore
    /\ outcome.value.finalScore < 40

\* ------------------------------------------------------------------------
\* Termination of scoreRecruiter (SpecLive)
\* ------------------------------------------------------------------------
DecideStartedForSubject == pc = "scoring"
FailedPersisting == pc = "thrown" /\ outcome.cause = "persistence"

\* C22: every sub-call enforces its own timeout, so a decide of an existing
\* subject eventually returns its record (or fails in a persistence step)
\* even when the semantic provider or a verification provider never
\* responds.
C22_DecideEventuallyReturns ==
    DecideStartedForSubject ~> (DecideReturned \/ FailedPersisting)

\* ------------------------------------------------------------------------
\* Determinism of the combination (SpecCombine)
\* ------------------------------------------------------------------------
Combinations == db.verificationResults

DecideFinished == pc \in {"done", "thrown"}

\* C24: every invocation of decide persists exactly one record, whatever
\* the outcome of its persistence steps (record creation, subject status
\* update).
C24_ExactlyOneRecordPerInvocation ==
    DecideFinished => Len(db.verificationResults) = 1

\* ------------------------------------------------------------------------
\* Degradation of the rule engine (Spec)
\* ------------------------------------------------------------------------
RuleEngineFailed == Combined /\ ruleBasedResults.status = "rejected"
ProviderAnswers == env.GEMINI_API_KEY /\ gemini.kind = "json"

\* C25: when the rule engine fails and is replaced by the neutral result
\* (score 50 with error), the semantic call still reaches the provider and
\* its result is the provider's answer, not the semantic fallback.
C25_RuleFailureDoesNotDegradeLLM ==
    (RuleEngineFailed /\ ProviderAnswers) =>
        /\ scores.ruleBasedScore.score = 50
        /\ Has(scores.ruleBasedScore, "error")
        /\ ~Has(llmResults, "error")
        /\ llmResults = llmScoring_scoreRecruiter(NoRuleContext, gemini)

\* ------------------------------------------------------------------------
\* Monotonicity of calculateFinalScore (SpecScore)
\* ------------------------------------------------------------------------
NonNegativeWeights ==
    LET w == weights(env)
    IN  w.ruleBased >= 0 /\ w.llm >= 0 /\ w.external >= 0

\* scores with one source's score replaced by v
WithRuleScore(s, v) == [s EXCEPT !.ruleBasedScore.score = v]
WithLLMScore(s, v) == [s EXCEPT !.llmScore.score = v]
WithChannelScore(s, ch, v) == [s EXCEPT !.externalVerification[ch].score = v]

NotLowered(s) == calculateFinalScore(s).finalScore >= finalResults.finalScore

\* C26: for fixed non-negative weights, raising any single source score
\* within 0..100 while the others stay fixed never lowers the finalScore
\* calculateFinalScore computes.
C26_FinalScoreMonotone ==
    (Calculated /\ NonNegativeWeights) =>
        \A v \in SampleScores :
            /\ v >= scores.ruleBasedScore.score => NotLowered(WithRuleScore(scores, v))
            /\ v >= scores.llmScore.score => NotLowered(WithLLMScore(scores, v))
            /\ \A ch \in Channels :
                   (HasScore(scores.externalVerification, ch)
                    /\ v >= scores.externalVerification[ch].score)
                       => NotLowered(WithChannelScore(scores, ch, v))

\* ------------------------------------------------------------------------
\* Decision under the semantic fallback (SpecFallback)
\* ------------------------------------------------------------------------
CombinedWithFallback == decision # NoDecision /\ Has(scores.llmScore, "error")

\* C27: whenever the semantic result is the fallback (score 50,
\* confidence 0) the decision is pending_review, for every pair of rule
\* score and external score: nothing is approved or flagged without a
\* semantic assessment.
C27_FallbackAlwaysPendingReview ==
    CombinedWithFallback => decision.decision = "pending_review"

C27_Witness ==
    /\ CombinedWithFallback
    /\ scores.ruleBasedScore.score = 100
    /\ calculateExternalScore(scores.externalVerification) = 100 * Unit
    /\ finalResults.finalScore >= spamThreshold(env)
    /\ decision.decision = "pending_review"

\* ------------------------------------------------------------------------
\* Concurrent invocations for one subject (SpecConcurrent)
\* ------------------------------------------------------------------------
AllInvocationsDone == \A i \in DOMAIN invocations : invocations[i].at = "done"
LatestRecord == db.verificationResults[Len(db.verificationResults)]

\* C28: when several invocations of decide for the same subject run
\* concurrently, then once all of them have finished the subject's
\* persisted status and verification score correspond to the most recently
\* created record of that subject.
C28_StatusFollowsLatestRecord ==
    AllInvocationsDone =>
        /\ db.recruiter.status = ClaimedStatus(LatestRecord.decision)
        /\ db.recruiter.verificationScore = LatestRecord.finalScore

\* ------------------------------------------------------------------------
\* Termination of batchScoreRecruiters (SpecBatchLive)
\* ------------------------------------------------------------------------
\* C29: for every finite list of ids and every integer concurrency option
\* of at least 0, provided each decide settles, the batch eventually
\* returns its summary.
C29_BatchEventuallyReturns == <>BatchReturned

\* ------------------------------------------------------------------------
\* The stored record's breakdown (Spec)
\* ------------------------------------------------------------------------
RecordStored == pc \in {"updating", "done"}
StoredRecord == db.verificationResults[Len(db.verificationResults)]

\* C30: for every record persisted by decide, getExternalAPIWeightedScore
\* and getScoreBreakdown return the same external score and the same three
\* weighted contributions as calculateExternalScore and calculateFinalScore
\* produced for that invocation.
C30_StoredBreakdownAgrees ==
    RecordStored =>
        LET atDecision == finalResults.breakdown
            recomputed == getScoreBreakdown(StoredRecord)
        IN  /\ getExternalAPIWeightedScore(StoredRecord) = atDecision.rawScores.external
            /\ recomputed.ruleBasedWeighted = atDecision.ruleBasedWeighted
            /\ recomputed.llmWeighted = atDecision.llmWeighted
            /\ recomputed.externalWeighted = atDecision.externalWeighted

====
